---- MODULE Spec2Model ----
(***************************************************************************)
(* Field classes of the trace IR (src/lib/trace-ir/field-class.c): the     *)
(* reference-counted graph of type descriptors, its freeze and             *)
(* part-of-trace-class flags, the named-field-class containers, the        *)
(* enumeration mapping tables and the selector-variant range validation.   *)
(*                                                                         *)
(* A failed precondition (BT_ASSERT_PRE and its developer-mode forms) ends *)
(* the call at the failing check: what the call wrote before the check   *)
(* stays written, nothing after it runs, and the call reports the status *)
(* the specification names for that check.  The developer-mode checks    *)
(* and the freeze macros are modelled as enabled.                        *)
(***************************************************************************)
EXTENDS Integers, Sequences, FiniteSets, TLC

\* ------------------------------------------------------------ bounds
MaxFc == 3        \* field classes ever created
MaxRs == 2        \* integer range sets ever created
MaxRanges == 2    \* ranges added to one range set
MaxHeld == 1      \* references one client holds on one object
MaxRefs == 3      \* reference count of one object

FcIds == 1..MaxFc
RsIds == 1..MaxRs
NULL == 0

\* ------------------------------------------------------------ inputs
Names == {"a", "b"}
Labels == {"x", "y"}
Sizes == {0, 32, 65}
Vals == {-1, 0, 1, 2}
Bases == {"DECIMAL", "HEXADECIMAL"}

IntTypes == {"UNSIGNED_INTEGER", "SIGNED_INTEGER"}
EnumTypes == {"UNSIGNED_ENUMERATION", "SIGNED_ENUMERATION"}
UnsignedIntTypes == {"UNSIGNED_INTEGER", "UNSIGNED_ENUMERATION"}
SelVariantTypes == {"VARIANT_WITH_UNSIGNED_SELECTOR", "VARIANT_WITH_SIGNED_SELECTOR"}
VariantTypes == SelVariantTypes \cup {"VARIANT_WITHOUT_SELECTOR"}
ContainerTypes == VariantTypes \cup {"STRUCTURE"}
ArrayTypes == {"STATIC_ARRAY", "DYNAMIC_ARRAY"}

\* ------------------------------------------------------------ state
VARIABLES
  fcs,      \* field class id -> struct bt_field_class (type "NONE": no object)
  rsets,    \* range set id -> struct bt_integer_range_set
  nfc,      \* field classes created so far
  nrs,      \* range sets created so far
  held,     \* references the clients hold on each field class
  rsheld,   \* references the clients hold on each range set
  last,     \* the last call: operation, target, key (the name, label or value
            \* passed), status, result
  threads,  \* thread id -> the label lookup the thread is running: position
            \* in the function, its arguments and locals, what it returned
  walk      \* the freeze or make_part_of_trace_class call that is running, one
            \* frame of the C stack per recursive call

vars == <<fcs, rsets, nfc, nrs, held, rsheld, last, threads, walk>>

MaxThreads == 2

ThreadIds == 1..MaxThreads

\* a thread that is not inside a lookup
NoLookup == [pc |-> "idle", fc |-> NULL, value |-> 0, i |-> 0, result |-> <<>>]

\* No freeze or make_part_of_trace_class call is running
NoWalk == [op |-> "none", root |-> NULL, from |-> <<>>, stack |-> <<>>]

\* g_new0(): every field zero
NoFc ==
  [type |-> "NONE", refs |-> 0, frozen |-> FALSE, part_of_trace_class |-> FALSE,
   range |-> 0, base |-> "DECIMAL", is_single_precision |-> FALSE,
   mappings |-> <<>>, label_buf |-> <<>>,
   named_fcs |-> <<>>, name_to_index |-> <<>>,
   element_fc |-> NULL, selector_fc |-> NULL, length_fc |-> NULL]

NoRs == [alive |-> FALSE, refs |-> 0, frozen |-> FALSE, is_signed |-> FALSE, ranges |-> <<>>]

Alive(F, id) == id \in FcIds /\ F[id].type # "NONE"

Call(op, fc, key, status, result) ==
  [op |-> op, fc |-> fc, key |-> key, status |-> status, result |-> result]

\* bt_object_init_shared(): reference count 1
init_field_class(type) == [NoFc EXCEPT !.type = type, !.refs = 1]

\* init_integer_field_class() that leaves range as g_new0() made it
init_integer_field_class_NoRange(type) ==
  [init_field_class(type) EXCEPT !.base = "DECIMAL"]

init_integer_field_class(type) ==
  [init_field_class(type) EXCEPT !.range = 64, !.base = "DECIMAL"]

Init ==
  /\ fcs = [i \in FcIds |-> NoFc]
  /\ rsets = [i \in RsIds |-> NoRs]
  /\ nfc = 0
  /\ nrs = 0
  /\ held = [i \in FcIds |-> 0]
  /\ rsheld = [i \in RsIds |-> 0]
  /\ last = Call("none", NULL, "", "OK", <<>>)
  /\ threads = [t \in ThreadIds |-> NoLookup]
  /\ walk = NoWalk

\* ------------------------------------------------------------ reference counts
FcRef(id) == [k |-> "fc", id |-> id]
RsRef(id) == [k |-> "rs", id |-> id]

RECURSIVE MappingRefs(_)
\* destroy_enumeration_field_class(): one put_ref per mapping's range set
MappingRefs(mappings) ==
  IF mappings = <<>> THEN <<>>
  ELSE <<RsRef(Head(mappings).range_set)>> \o MappingRefs(Tail(mappings))

RECURSIVE NamedFcRefs(_)
\* g_ptr_array_free() of named_fcs: the element free function on each entry, in
\* order; destroy_variant_with_selector_option() also puts the option's range set
NamedFcRefs(named_fcs) ==
  IF named_fcs = <<>> THEN <<>>
  ELSE LET e == Head(named_fcs) IN
       <<FcRef(e.fc)>>
       \o (IF e.range_set # NULL THEN <<RsRef(e.range_set)>> ELSE <<>>)
       \o NamedFcRefs(Tail(named_fcs))

\* The release functions, destroy_variant_with_selector_field_class() without
\* its put of selector_fc
OwnedRefs_NoSelectorFc(f) ==
  IF f.type \in EnumTypes THEN MappingRefs(f.mappings)
  ELSE IF f.type \in ContainerTypes THEN NamedFcRefs(f.named_fcs)
  ELSE IF f.type \in ArrayTypes THEN
    <<FcRef(f.element_fc)>>
    \o (IF f.length_fc # NULL THEN <<FcRef(f.length_fc)>> ELSE <<>>)
  ELSE <<>>

\* The release functions, destroy_dynamic_array_field_class() without its put
\* of length_fc
OwnedRefs_NoLengthFc(f) ==
  IF f.type \in EnumTypes THEN MappingRefs(f.mappings)
  ELSE IF f.type \in ContainerTypes THEN
    NamedFcRefs(f.named_fcs)
    \o (IF f.selector_fc # NULL THEN <<FcRef(f.selector_fc)>> ELSE <<>>)
  ELSE IF f.type \in ArrayTypes THEN <<FcRef(f.element_fc)>>
  ELSE <<>>

\* The references an object's release function puts, in the order it puts them
OwnedRefs(f) ==
  IF f.type \in EnumTypes THEN MappingRefs(f.mappings)
  ELSE IF f.type \in ContainerTypes THEN
    NamedFcRefs(f.named_fcs)
    \o (IF f.selector_fc # NULL THEN <<FcRef(f.selector_fc)>> ELSE <<>>)
  ELSE IF f.type \in ArrayTypes THEN
    <<FcRef(f.element_fc)>>
    \o (IF f.length_fc # NULL THEN <<FcRef(f.length_fc)>> ELSE <<>>)
  ELSE <<>>

RECURSIVE PutRefs(_, _)
\* bt_object_put_ref() on each object of todo, in order: the count drops by one,
\* and at zero the release function runs (it puts what the object owns before
\* the next object of todo is looked at) and the object is freed
PutRefs(H, todo) ==
  IF todo = <<>> THEN H
  ELSE LET h == Head(todo) IN
    IF h.k = "rs" THEN
      IF H.R[h.id].refs > 1
        THEN PutRefs([H EXCEPT !.R[h.id].refs = @ - 1], Tail(todo))
        ELSE PutRefs([H EXCEPT !.R[h.id] = NoRs], Tail(todo))
    ELSE
      IF H.F[h.id].refs > 1
        THEN PutRefs([H EXCEPT !.F[h.id].refs = @ - 1], Tail(todo))
        ELSE PutRefs([H EXCEPT !.F[h.id] = NoFc],
                     OwnedRefs(H.F[h.id]) \o Tail(todo))

\* bt_object_get_ref() that leaves the count as it is
GetRefFc_NoIncrement(F, id) == F

\* bt_object_get_ref() / bt_object_get_no_null_check()
GetRefFc(F, id) == [F EXCEPT ![id].refs = @ + 1]

\* The model stops taking references on an object at MaxRefs
CanRefFc(id) == IF id = NULL THEN TRUE ELSE fcs[id].refs < MaxRefs
CanRefRs(id) == rsets[id].refs < MaxRefs

\* ------------------------------------------------------------ freeze
RECURSIVE _bt_field_class_freeze(_, _)
RECURSIVE FreezeNamedFcs(_, _, _)

\* _bt_named_field_class_freeze() taking a reference on the field class
_bt_named_field_class_freeze_GetRef(F, id, i) ==
  _bt_field_class_freeze(
    GetRefFc([F EXCEPT ![id].named_fcs[i].frozen = TRUE], F[id].named_fcs[i].fc),
    F[id].named_fcs[i].fc)

\* _bt_named_field_class_freeze() on the entry at position i of container id
_bt_named_field_class_freeze(F, id, i) ==
  _bt_field_class_freeze([F EXCEPT ![id].named_fcs[i].frozen = TRUE],
                         F[id].named_fcs[i].fc)

\* the loop of _bt_field_class_freeze() over named_fcs, from position i
FreezeNamedFcs(F, id, i) ==
  IF i > Len(F[id].named_fcs) THEN F
  ELSE FreezeNamedFcs(_bt_named_field_class_freeze(F, id, i), id, i + 1)

\* _bt_field_class_freeze() that sets the flag of a container's entries and of
\* their field classes, and not the container's own
_bt_field_class_freeze_EntriesOnly(F, id) ==
  IF F[id].type \in ContainerTypes THEN FreezeNamedFcs(F, id, 1)
  ELSE [F EXCEPT ![id].frozen = TRUE]

_bt_field_class_freeze(F, id) ==
  LET F1 == [F EXCEPT ![id].frozen = TRUE] IN
  IF F1[id].type \in ContainerTypes THEN FreezeNamedFcs(F1, id, 1) ELSE F1

\* ------------------------------------------------------------ part of trace class
RECURSIVE bt_field_class_make_part_of_trace_class(_, _)
RECURSIVE MakePartNamedFcs(_, _, _)

\* the loop over named_fcs, from position i; stops at the first failed call
MakePartNamedFcs(S, id, i) ==
  IF ~S.ok \/ i > Len(S.F[id].named_fcs) THEN S
  ELSE MakePartNamedFcs(
         bt_field_class_make_part_of_trace_class(S, S.F[id].named_fcs[i].fc),
         id, i + 1)

RECURSIVE make_part_of_trace_class_NoCheck(_, _)
\* bt_field_class_make_part_of_trace_class without its precondition
make_part_of_trace_class_NoCheck(S, id) ==
  LET S1 == [S EXCEPT !.F[id].part_of_trace_class = TRUE] IN
  IF S1.F[id].type \in ContainerTypes THEN MakePartNamedFcs(S1, id, 1)
  ELSE IF S1.F[id].type \in ArrayTypes
    THEN make_part_of_trace_class_NoCheck(S1, S1.F[id].element_fc)
  ELSE S1

\* bt_field_class_make_part_of_trace_class without the array cases
make_part_of_trace_class_NoArrayCase(S, id) ==
  IF S.F[id].part_of_trace_class THEN [S EXCEPT !.ok = FALSE]
  ELSE LET S1 == [S EXCEPT !.F[id].part_of_trace_class = TRUE] IN
    IF S1.F[id].type \in ContainerTypes THEN MakePartNamedFcs(S1, id, 1) ELSE S1

\* bt_field_class_make_part_of_trace_class with its precondition on the first
\* call only, not on the calls for the children
make_part_of_trace_class_CheckRootOnly(S, id) ==
  IF S.F[id].part_of_trace_class THEN [S EXCEPT !.ok = FALSE]
  ELSE make_part_of_trace_class_NoCheck(S, id)

\* bt_field_class_make_part_of_trace_class clearing the flag of a field class
\* that fails its precondition
make_part_of_trace_class_ClearOnFailure(S, id) ==
  IF S.F[id].part_of_trace_class
    THEN [S EXCEPT !.ok = FALSE, !.F[id].part_of_trace_class = FALSE]
  ELSE LET S1 == [S EXCEPT !.F[id].part_of_trace_class = TRUE] IN
    IF S1.F[id].type \in ContainerTypes THEN MakePartNamedFcs(S1, id, 1)
    ELSE IF S1.F[id].type \in ArrayTypes
      THEN bt_field_class_make_part_of_trace_class(S1, S1.F[id].element_fc)
    ELSE S1

\* bt_field_class_make_part_of_trace_class that follows the length field class
\* of a dynamic array after its element
make_part_of_trace_class_AlsoLength(S, id) ==
  IF S.F[id].part_of_trace_class THEN [S EXCEPT !.ok = FALSE]
  ELSE LET S1 == [S EXCEPT !.F[id].part_of_trace_class = TRUE] IN
    IF S1.F[id].type \in ContainerTypes THEN MakePartNamedFcs(S1, id, 1)
    ELSE IF S1.F[id].type \in ArrayTypes
      THEN LET S2 == bt_field_class_make_part_of_trace_class(
                       S1, S1.F[id].element_fc) IN
           IF S2.ok /\ S2.F[id].length_fc # NULL
             THEN bt_field_class_make_part_of_trace_class(S2, S2.F[id].length_fc)
           ELSE S2
    ELSE S1

\* S = [F, ok]: the field classes and whether every precondition held so far
bt_field_class_make_part_of_trace_class(S, id) ==
  IF S.F[id].part_of_trace_class THEN [S EXCEPT !.ok = FALSE]
  ELSE LET S1 == [S EXCEPT !.F[id].part_of_trace_class = TRUE] IN
    IF S1.F[id].type \in ContainerTypes THEN MakePartNamedFcs(S1, id, 1)
    ELSE IF S1.F[id].type \in ArrayTypes
      THEN bt_field_class_make_part_of_trace_class(S1, S1.F[id].element_fc)
    ELSE S1

\* ------------------------------------------------------------ integer range sets
Range(lower, upper) == [lower |-> lower, upper |-> upper]

RECURSIVE InsertByLower(_, _)
InsertByLower(r, sorted) ==
  IF sorted = <<>> THEN <<r>>
  ELSE IF r.lower <= Head(sorted).lower THEN <<r>> \o sorted
  ELSE <<Head(sorted)>> \o InsertByLower(r, Tail(sorted))

RECURSIVE SortByLower(_)
SortByLower(ranges) ==
  IF ranges = <<>> THEN <<>>
  ELSE InsertByLower(Head(ranges), SortByLower(Tail(ranges)))

\* bt_integer_range_set_{unsigned,signed}_has_overlaps(): sort a working copy by
\* lower bound, then look for an element that starts at or before the end of
\* the one before it
bt_integer_range_set_has_overlaps(ranges) ==
  LET sorted == SortByLower(ranges) IN
  \E i \in 2..Len(sorted) : sorted[i].lower <= sorted[i - 1].upper

\* ------------------------------------------------------------ enumerations
RECURSIVE LabelsRangeLoop_NoBreak(_, _, _, _, _)
\* LabelsRangeLoop without the break
LabelsRangeLoop_NoBreak(buf, label, ranges, j, value) ==
  IF j > Len(ranges) THEN buf
  ELSE LabelsRangeLoop_NoBreak(
         IF value >= ranges[j].lower /\ value <= ranges[j].upper
           THEN Append(buf, label) ELSE buf,
         label, ranges, j + 1, value)

RECURSIVE LabelsRangeLoop(_, _, _, _, _)
\* the inner loop of get_mapping_labels_for_value(), from range j (1-based)
LabelsRangeLoop(buf, label, ranges, j, value) ==
  IF j > Len(ranges) THEN buf
  ELSE IF value >= ranges[j].lower /\ value <= ranges[j].upper
    THEN Append(buf, label)      \* g_ptr_array_add(); break
  ELSE LabelsRangeLoop(buf, label, ranges, j + 1, value)

RECURSIVE LabelsMappingLoop(_, _, _, _, _)
\* the outer loop of get_mapping_labels_for_value(), from mapping i (1-based)
LabelsMappingLoop(buf, mappings, R, i, value) ==
  IF i > Len(mappings) THEN buf
  ELSE LabelsMappingLoop(
         LabelsRangeLoop(buf, mappings[i].label, R[mappings[i].range_set].ranges,
                         1, value),
         mappings, R, i + 1, value)

\* get_mapping_labels_for_value() without g_ptr_array_set_size(label_buf, 0)
get_mapping_labels_for_value_NoClear(f, R, value) ==
  LabelsMappingLoop(f.label_buf, f.mappings, R, 1, value)

\* g_ptr_array_set_size(label_buf, 0), then the scan; the new label_buf
get_mapping_labels_for_value(f, R, value) ==
  LabelsMappingLoop(<<>>, f.mappings, R, 1, value)

RECURSIVE MappingRanges(_, _)
\* Every range of every mapping, in order
MappingRanges(mappings, R) ==
  IF mappings = <<>> THEN <<>>
  ELSE R[Head(mappings).range_set].ranges \o MappingRanges(Tail(mappings), R)

\* enumeration_field_class_has_mapping_with_label() looking at the first
\* mapping only
has_mapping_with_label_FirstOnly(f, label) ==
  \E i \in 1..Len(f.mappings) : i = 1 /\ f.mappings[i].label = label

enumeration_field_class_has_mapping_with_label(f, label) ==
  \E i \in 1..Len(f.mappings) : f.mappings[i].label = label

\* ------------------------------------------------------------ containers
\* init_named_field_class() without bt_object_get_no_null_check()
init_named_field_class_NoRef(F, fc) == _bt_field_class_freeze(F, fc)

\* create_named_field_class() / init_named_field_class(): the new entry takes a
\* reference on fc and freezes itself and fc.  The entry is not in a container
\* yet, so only the field class side of _bt_named_field_class_freeze() shows in F.
init_named_field_class(F, fc) == _bt_field_class_freeze(GetRefFc(F, fc), fc)

NamedFc(name, fc, range_set) ==
  [name |-> name, fc |-> fc, frozen |-> TRUE, range_set |-> range_set]

bt_g_hash_table_contains(name_to_index, name) == name \in DOMAIN name_to_index

\* The status without the check of the name
AppendStatus_NoNameCheck(F, id, name) ==
  IF F[id].frozen THEN "InvalidState" ELSE "OK"

\* The status without BT_ASSERT_PRE_DEV_FC_HOT()
AppendStatus_NoHotCheck(F, id, name) ==
  IF bt_g_hash_table_contains(F[id].name_to_index, name) THEN "DuplicateName"
  ELSE "OK"

\* append_named_field_class_to_container_field_class(): the status, given the
\* field classes as they are when it runs
AppendStatus(F, id, name) ==
  IF F[id].frozen THEN "InvalidState"
  ELSE IF bt_g_hash_table_contains(F[id].name_to_index, name) THEN "DuplicateName"
  ELSE "OK"

\* The entry put in front of the others instead of after them
append_named_field_class_to_container_field_class_InFront(F, id, named_fc) ==
  LET named_fcs == <<named_fc>> \o F[id].named_fcs IN
  [F EXCEPT ![id].named_fcs = named_fcs,
            ![id].name_to_index = (named_fc.name :> (Len(named_fcs) - 1)) @@ @]

\* g_ptr_array_add() and g_hash_table_insert(name, len - 1)
append_named_field_class_to_container_field_class(F, id, named_fc) ==
  LET named_fcs == Append(F[id].named_fcs, named_fc) IN
  [F EXCEPT ![id].named_fcs = named_fcs,
            ![id].name_to_index = (named_fc.name :> (Len(named_fcs) - 1)) @@ @]

RECURSIVE OptionRanges(_, _)
\* ranges_overlap(), "Add existing option ranges": every range of every option
OptionRanges(named_fcs, R) ==
  IF named_fcs = <<>> THEN <<>>
  ELSE R[Head(named_fcs).range_set].ranges \o OptionRanges(Tail(named_fcs), R)

\* create_variant_with_selector_option() without bt_integer_range_set_freeze()
create_variant_with_selector_option_NoFreeze(R, range_set) ==
  [R EXCEPT ![range_set].refs = @ + 1]

\* create_variant_with_selector_option(), the range set side: a reference is
\* taken and the range set is frozen
create_variant_with_selector_option(R, range_set) ==
  [R EXCEPT ![range_set].refs = @ + 1, ![range_set].frozen = TRUE]

\* ranges_overlap() without the "Add existing option ranges" loop
ranges_overlap_NewRangesOnly(named_fcs, R, range_set) ==
  bt_integer_range_set_has_overlaps(R[range_set].ranges)

\* ranges_overlap() that tests the new ranges against the existing options'
\* ranges only, not against each other
ranges_overlap_AcrossOnly(named_fcs, R, range_set) ==
  LET old == OptionRanges(named_fcs, R)
      new == R[range_set].ranges
  IN \E i \in 1..Len(old), j \in 1..Len(new) :
       old[i].lower <= new[j].upper /\ new[j].lower <= old[i].upper

\* ranges_overlap(): the existing options' ranges, then the new ones, in one
\* range set that is tested for overlaps
ranges_overlap(named_fcs, R, range_set) ==
  bt_integer_range_set_has_overlaps(
    OptionRanges(named_fcs, R) \o R[range_set].ranges)

\* ------------------------------------------------------------ operations
NewFc(f, op) ==
  /\ nfc < MaxFc
  /\ fcs' = [fcs EXCEPT ![nfc + 1] = f]
  /\ nfc' = nfc + 1
  /\ held' = [held EXCEPT ![nfc + 1] = 1]
  /\ last' = Call(op, nfc + 1, "", "OK", <<>>)

\* bt_field_class_{unsigned,signed}_integer_create()
CreateInteger(type) ==
  /\ NewFc(init_integer_field_class(type), "integer_create")
  /\ UNCHANGED <<rsets, nrs, rsheld>>

\* bt_field_class_{unsigned,signed}_enumeration_create()
CreateEnumeration(type) ==
  /\ NewFc(init_integer_field_class(type), "enumeration_create")
  /\ UNCHANGED <<rsets, nrs, rsheld>>

\* bt_field_class_real_create()
CreateReal ==
  /\ NewFc(init_field_class("REAL"), "real_create")
  /\ UNCHANGED <<rsets, nrs, rsheld>>

\* bt_field_class_string_create()
CreateString ==
  /\ NewFc(init_field_class("STRING"), "string_create")
  /\ UNCHANGED <<rsets, nrs, rsheld>>

\* bt_field_class_structure_create()
CreateStructure ==
  /\ NewFc(init_field_class("STRUCTURE"), "structure_create")
  /\ UNCHANGED <<rsets, nrs, rsheld>>

\* The choice of the variant type with the unsigned enumeration case missing
VariantTypeForSelector_NoEnumCase(f) ==
  IF f.type = "UNSIGNED_INTEGER" THEN "VARIANT_WITH_UNSIGNED_SELECTOR"
  ELSE "VARIANT_WITH_SIGNED_SELECTOR"

\* bt_field_class_variant_create(): fc_type, from the type of the selector
VariantTypeForSelector(f) ==
  IF f.type = "UNSIGNED_INTEGER" \/ f.type = "UNSIGNED_ENUMERATION"
    THEN "VARIANT_WITH_UNSIGNED_SELECTOR"
    ELSE "VARIANT_WITH_SIGNED_SELECTOR"

\* bt_field_class_variant_create(): selector_fc is NULL or a live field class
CreateVariant(selector_fc) ==
  /\ nfc < MaxFc
  /\ IF selector_fc = NULL THEN TRUE ELSE Alive(fcs, selector_fc)
  /\ CanRefFc(selector_fc)
  /\ IF selector_fc # NULL /\ fcs[selector_fc].type \notin IntTypes \cup EnumTypes
     THEN /\ last' = Call("variant_create", NULL, "", "InvalidArgument", <<>>)
          /\ UNCHANGED <<fcs, nfc, held>>
     ELSE IF selector_fc # NULL
     THEN LET type == VariantTypeForSelector(fcs[selector_fc])
              F1 == _bt_field_class_freeze(GetRefFc(fcs, selector_fc), selector_fc)
          IN /\ fcs' = [F1 EXCEPT ![nfc + 1] =
                          [init_field_class(type) EXCEPT !.selector_fc = selector_fc]]
             /\ nfc' = nfc + 1
             /\ held' = [held EXCEPT ![nfc + 1] = 1]
             /\ last' = Call("variant_create", nfc + 1, "", "OK", <<>>)
     ELSE NewFc(init_field_class("VARIANT_WITHOUT_SELECTOR"), "variant_create")
  /\ UNCHANGED <<rsets, nrs, rsheld>>

\* init_array_field_class() without bt_field_class_freeze(element_fc)
init_array_field_class_NoFreeze(F, element_fc) == GetRefFc(F, element_fc)

\* init_array_field_class(): a reference on element_fc, which is frozen
init_array_field_class(F, element_fc) ==
  _bt_field_class_freeze(GetRefFc(F, element_fc), element_fc)

\* bt_field_class_static_array_create() (the length is not modelled)
CreateStaticArray(element_fc) ==
  /\ nfc < MaxFc
  /\ Alive(fcs, element_fc)
  /\ CanRefFc(element_fc)
  /\ fcs' = [init_array_field_class(fcs, element_fc) EXCEPT ![nfc + 1] =
               [init_field_class("STATIC_ARRAY") EXCEPT !.element_fc = element_fc]]
  /\ nfc' = nfc + 1
  /\ held' = [held EXCEPT ![nfc + 1] = 1]
  /\ last' = Call("static_array_create", nfc + 1, "", "OK", <<>>)
  /\ UNCHANGED <<rsets, nrs, rsheld>>

\* BT_ASSERT_PRE_FC_IS_INT in the place of BT_ASSERT_PRE_FC_IS_UNSIGNED_INT
FcIsUnsignedInt_AnyInt(f) == f.type \in IntTypes \cup EnumTypes

\* BT_ASSERT_PRE_FC_IS_UNSIGNED_INT(length_fc)
FcIsUnsignedInt(f) == f.type \in UnsignedIntTypes

\* bt_field_class_dynamic_array_create(): length_fc is NULL or a live field
\* class.  The length check runs after init_array_field_class(): when it fails
\* the array object is lost with its reference on element_fc.
CreateDynamicArray(element_fc, length_fc) ==
  /\ nfc < MaxFc
  /\ Alive(fcs, element_fc)
  /\ CanRefFc(element_fc)
  /\ IF length_fc = NULL THEN TRUE ELSE Alive(fcs, length_fc)
  /\ CanRefFc(length_fc)
  /\ length_fc = element_fc => fcs[element_fc].refs + 1 < MaxRefs
  /\ LET F1 == init_array_field_class(fcs, element_fc) IN
     IF length_fc # NULL /\ ~FcIsUnsignedInt(F1[length_fc])
     THEN /\ fcs' = F1
          /\ last' = Call("dynamic_array_create", NULL, "", "InvalidArgument", <<>>)
          /\ UNCHANGED <<nfc, held>>
     ELSE LET F2 == IF length_fc = NULL THEN F1
                    ELSE _bt_field_class_freeze(GetRefFc(F1, length_fc), length_fc)
          IN /\ fcs' = [F2 EXCEPT ![nfc + 1] =
                          [init_field_class("DYNAMIC_ARRAY") EXCEPT
                             !.element_fc = element_fc, !.length_fc = length_fc]]
             /\ nfc' = nfc + 1
             /\ held' = [held EXCEPT ![nfc + 1] = 1]
             /\ last' = Call("dynamic_array_create", nfc + 1, "", "OK", <<>>)
  /\ UNCHANGED <<rsets, nrs, rsheld>>

\* TODO in the source: accepts every size
size_is_valid_for_enumeration_field_class(f, size) == TRUE

\* SetFieldValueRangeStatus without BT_ASSERT_PRE_DEV_FC_HOT
SetFieldValueRangeStatus_NoHotCheck(f, size) ==
  IF ~(size <= 64) THEN "InvalidArgument" ELSE "OK"

\* SetFieldValueRangeStatus without BT_ASSERT_PRE(size <= 64)
SetFieldValueRangeStatus_NoSizeCheck(f, size) ==
  IF f.frozen THEN "InvalidState" ELSE "OK"

\* The preconditions of bt_field_class_integer_set_field_value_range(), in order
SetFieldValueRangeStatus(f, size) ==
  IF f.frozen THEN "InvalidState"
  ELSE IF ~(size <= 64) THEN "InvalidArgument"
  ELSE IF ~(f.type \in IntTypes \/ size_is_valid_for_enumeration_field_class(f, size))
    THEN "InvalidArgument"
  ELSE "OK"

\* bt_field_class_integer_set_field_value_range()
SetFieldValueRange(fc, size) ==
  /\ Alive(fcs, fc)
  /\ fcs[fc].type \in IntTypes \cup EnumTypes
  /\ LET status == SetFieldValueRangeStatus(fcs[fc], size)
     IN /\ fcs' = IF status = "OK" THEN [fcs EXCEPT ![fc].range = size] ELSE fcs
        /\ last' = Call("set_field_value_range", fc, "", status, <<>>)
  /\ UNCHANGED <<rsets, nfc, nrs, held, rsheld>>

\* bt_field_class_integer_set_preferred_display_base()
SetPreferredDisplayBase(fc, base) ==
  /\ Alive(fcs, fc)
  /\ fcs[fc].type \in IntTypes \cup EnumTypes
  /\ LET status == IF fcs[fc].frozen THEN "InvalidState" ELSE "OK"
     IN /\ fcs' = IF status = "OK" THEN [fcs EXCEPT ![fc].base = base] ELSE fcs
        /\ last' = Call("set_preferred_display_base", fc, "", status, <<>>)
  /\ UNCHANGED <<rsets, nfc, nrs, held, rsheld>>

\* bt_field_class_real_set_is_single_precision()
SetIsSinglePrecision(fc, is_single_precision) ==
  /\ Alive(fcs, fc)
  /\ fcs[fc].type = "REAL"
  /\ LET status == IF fcs[fc].frozen THEN "InvalidState" ELSE "OK"
     IN /\ fcs' = IF status = "OK"
                    THEN [fcs EXCEPT ![fc].is_single_precision = is_single_precision]
                    ELSE fcs
        /\ last' = Call("set_is_single_precision", fc, "", status, <<>>)
  /\ UNCHANGED <<rsets, nfc, nrs, held, rsheld>>

\* add_mapping_to_enumeration_field_class() with the overlap check of the
\* variant options
AddMappingStatus_OverlapCheck(f, R, label, range_set) ==
  IF enumeration_field_class_has_mapping_with_label(f, label) THEN "DuplicateLabel"
  ELSE IF bt_integer_range_set_has_overlaps(
            MappingRanges(f.mappings, R) \o R[range_set].ranges)
    THEN "OverlappingRanges"
  ELSE "OK"

\* The preconditions of add_mapping_to_enumeration_field_class()
AddMappingStatus(f, R, label, range_set) ==
  IF enumeration_field_class_has_mapping_with_label(f, label) THEN "DuplicateLabel"
  ELSE "OK"

\* bt_field_class_{unsigned,signed}_enumeration_add_mapping(): range_set is of
\* the signedness of the called function
AddMapping(fc, label, range_set) ==
  /\ Alive(fcs, fc)
  /\ fcs[fc].type \in EnumTypes
  /\ rsets[range_set].alive
  /\ rsets[range_set].is_signed = (fcs[fc].type = "SIGNED_ENUMERATION")
  /\ CanRefRs(range_set)
  /\ IF AddMappingStatus(fcs[fc], rsets, label, range_set) # "OK"
     THEN /\ last' = Call("add_mapping", fc, label,
                          AddMappingStatus(fcs[fc], rsets, label, range_set), <<>>)
          /\ UNCHANGED <<fcs, rsets>>
     ELSE /\ rsets' = [rsets EXCEPT ![range_set].refs = @ + 1]
          /\ fcs' = [fcs EXCEPT ![fc].mappings =
                       Append(@, [label |-> label, range_set |-> range_set])]
          /\ last' = Call("add_mapping", fc, label, "OK", <<>>)
  /\ UNCHANGED <<nfc, nrs, held, rsheld>>

\* bt_field_class_{unsigned,signed}_enumeration_get_mapping_labels_for_value()
GetMappingLabelsForValue(fc, value) ==
  /\ Alive(fcs, fc)
  /\ fcs[fc].type \in EnumTypes
  /\ LET buf == get_mapping_labels_for_value(fcs[fc], rsets, value) IN
     /\ fcs' = [fcs EXCEPT ![fc].label_buf = buf]
     /\ last' = Call("get_mapping_labels_for_value", fc, value, "OK", buf)
  /\ UNCHANGED <<rsets, nfc, nrs, held, rsheld>>

\* The same function, one access to the shared label_buf at a time, as a thread
\* that runs beside other threads executes it.
\* Entry: g_ptr_array_set_size(enum_fc->label_buf, 0)
LabelsEnter(t, fc, value) ==
  /\ threads[t].pc = "idle"
  /\ Alive(fcs, fc)
  /\ fcs[fc].type \in EnumTypes
  /\ fcs' = [fcs EXCEPT ![fc].label_buf = <<>>]
  /\ threads' = [threads EXCEPT ![t] =
                   [pc |-> "scan", fc |-> fc, value |-> value, i |-> 1,
                    result |-> <<>>]]
  /\ UNCHANGED <<rsets, nfc, nrs, held, rsheld, last, walk>>

\* One iteration of the outer loop: mapping i, g_ptr_array_add() when one of
\* its ranges contains the value
LabelsScan(t) ==
  LET th == threads[t] IN
  /\ th.pc = "scan"
  /\ th.i <= Len(fcs[th.fc].mappings)
  /\ LET m == fcs[th.fc].mappings[th.i] IN
     fcs' = [fcs EXCEPT ![th.fc].label_buf =
               LabelsRangeLoop(@, m.label, rsets[m.range_set].ranges, 1,
                               th.value)]
  /\ threads' = [threads EXCEPT ![t].i = @ + 1]
  /\ UNCHANGED <<rsets, nfc, nrs, held, rsheld, last, walk>>

\* Exit: *label_array = label_buf->pdata, *count = label_buf->len
LabelsReturn(t) ==
  LET th == threads[t] IN
  /\ th.pc = "scan"
  /\ th.i > Len(fcs[th.fc].mappings)
  /\ threads' = [threads EXCEPT ![t].pc = "done",
                                ![t].result = fcs[th.fc].label_buf]
  /\ UNCHANGED <<fcs, rsets, nfc, nrs, held, rsheld, last, walk>>

\* bt_field_class_structure_append_member() and
\* bt_field_class_variant_without_selector_append_option(): the entry is created
\* (reference taken, field class frozen) before the container is checked
AppendNamedFc(op, type, fc, name, member_fc) ==
  /\ Alive(fcs, fc)
  /\ fcs[fc].type = type
  /\ Alive(fcs, member_fc)
  /\ CanRefFc(member_fc)
  /\ LET F1 == init_named_field_class(fcs, member_fc)
         status == AppendStatus(F1, fc, name)
     IN /\ fcs' = IF status = "OK"
                    THEN append_named_field_class_to_container_field_class(
                           F1, fc, NamedFc(name, member_fc, NULL))
                    ELSE F1
        /\ last' = Call(op, fc, name, status, <<>>)
  /\ UNCHANGED <<rsets, nfc, nrs, held, rsheld>>

StructureAppendMember(fc, name, member_fc) ==
  AppendNamedFc("append_member", "STRUCTURE", fc, name, member_fc)

VariantWithoutSelectorAppendOption(fc, name, option_fc) ==
  AppendNamedFc("append_option", "VARIANT_WITHOUT_SELECTOR", fc, name, option_fc)

\* The preconditions without the check that the range set has a range
SelectorOptionStatus_NoEmptyCheck(f, R, range_set, expected_type) ==
  IF f.type # expected_type THEN "InvalidArgument"
  ELSE IF ranges_overlap(f.named_fcs, R, range_set) THEN "OverlappingRanges"
  ELSE "OK"

\* The preconditions of append_option_to_variant_with_selector_field_class()
\* that precede the creation of the option, in order
SelectorOptionStatus(f, R, range_set, expected_type) ==
  IF f.type # expected_type THEN "InvalidArgument"
  ELSE IF ~(Len(R[range_set].ranges) > 0) THEN "EmptyRangeSet"
  ELSE IF ranges_overlap(f.named_fcs, R, range_set) THEN "OverlappingRanges"
  ELSE "OK"

\* append_option_to_variant_with_selector_field_class(), called by
\* bt_field_class_variant_with_{unsigned,signed}_selector_append_option() with
\* its expected_type and a range set of its signedness
VariantWithSelectorAppendOption(expected_type, fc, name, option_fc, range_set) ==
  /\ Alive(fcs, fc)
  /\ fcs[fc].type \in SelVariantTypes
  /\ Alive(fcs, option_fc)
  /\ CanRefFc(option_fc)
  /\ rsets[range_set].alive
  /\ CanRefRs(range_set)
  /\ rsets[range_set].is_signed = (expected_type = "VARIANT_WITH_SIGNED_SELECTOR")
  /\ IF SelectorOptionStatus(fcs[fc], rsets, range_set, expected_type) # "OK"
     THEN /\ last' = Call("append_option", fc, name,
                          SelectorOptionStatus(fcs[fc], rsets, range_set,
                                               expected_type), <<>>)
          /\ UNCHANGED <<fcs, rsets>>
     ELSE \* create_variant_with_selector_option()
          LET F1 == init_named_field_class(fcs, option_fc)
              status == AppendStatus(F1, fc, name)
          IN /\ rsets' = create_variant_with_selector_option(rsets, range_set)
             /\ fcs' = IF status = "OK"
                         THEN append_named_field_class_to_container_field_class(
                                F1, fc, NamedFc(name, option_fc, range_set))
                         ELSE F1
             /\ last' = Call("append_option", fc, name, status, <<>>)
  /\ UNCHANGED <<nfc, nrs, held, rsheld>>

\* borrow_named_field_class_from_container_field_class_by_name(): the entry, or
\* nothing (NULL)
BorrowByName(fc, name) ==
  /\ Alive(fcs, fc)
  /\ fcs[fc].type \in ContainerTypes
  /\ last' = Call("borrow_by_name", fc, name, "OK",
                  IF name \in DOMAIN fcs[fc].name_to_index
                    THEN <<fcs[fc].named_fcs[fcs[fc].name_to_index[name] + 1]>>
                    ELSE <<>>)
  /\ UNCHANGED <<fcs, rsets, nfc, nrs, held, rsheld>>

\* bt_field_class_structure_get_member_count() and
\* bt_field_class_variant_get_option_count(): named_fcs->len
GetCount(fc) ==
  /\ Alive(fcs, fc)
  /\ fcs[fc].type \in ContainerTypes
  /\ last' = Call("get_count", fc, "", "OK", <<Len(fcs[fc].named_fcs)>>)
  /\ UNCHANGED <<fcs, rsets, nfc, nrs, held, rsheld>>

\* borrow_named_field_class_from_container_field_class_at_index(): the entry at
\* the index (0-based); an index that is not below named_fcs->len fails the
\* precondition
BorrowAtIndex(fc, index) ==
  /\ Alive(fcs, fc)
  /\ fcs[fc].type \in ContainerTypes
  /\ last' = IF index < Len(fcs[fc].named_fcs)
               THEN Call("borrow_at_index", fc, index, "OK",
                         <<fcs[fc].named_fcs[index + 1]>>)
               ELSE Call("borrow_at_index", fc, index, "InvalidArgument", <<>>)
  /\ UNCHANGED <<fcs, rsets, nfc, nrs, held, rsheld>>

\* bt_field_class_freeze(), as the owners of a field class call it
Freeze(fc) ==
  /\ Alive(fcs, fc)
  /\ fcs' = _bt_field_class_freeze(fcs, fc)
  /\ last' = Call("freeze", fc, "", "OK", <<>>)
  /\ UNCHANGED <<rsets, nfc, nrs, held, rsheld>>

\* bt_field_class_make_part_of_trace_class(), as a trace class calls it
MakePartOfTraceClass(fc) ==
  /\ Alive(fcs, fc)
  /\ LET S == bt_field_class_make_part_of_trace_class([F |-> fcs, ok |-> TRUE], fc)
     IN /\ fcs' = S.F
        /\ last' = Call("make_part_of_trace_class", fc, "",
                        IF S.ok THEN "OK" ELSE "InvalidState", <<>>)
  /\ UNCHANGED <<rsets, nfc, nrs, held, rsheld>>

\* The same two functions, one recursive call at a time.  A frame is a call
\* that has not returned: fc is its argument, i is 0 before the body has run
\* and the loop index plus one after.
\* The field classes that the call on f calls itself on, in order: the entries
\* of a container for both functions, the element of an array for
\* make_part_of_trace_class only
WalkChildren(op, f) ==
  IF f.type \in ContainerTypes
    THEN [k \in 1..Len(f.named_fcs) |-> f.named_fcs[k].fc]
  ELSE IF op = "make_part_of_trace_class" /\ f.type \in ArrayTypes
    THEN <<f.element_fc>>
  ELSE <<>>

\* the for loop without its i++
WalkAdvance_NoIncrement(frame) == frame

\* i++ of the for loop
WalkAdvance(frame) == [frame EXCEPT !.i = @ + 1]

\* The call by the owner: the first frame
WalkEnter(op, fc) ==
  /\ walk.stack = <<>>
  /\ Alive(fcs, fc)
  /\ walk' = [op |-> op, root |-> fc, from |-> fcs,
              stack |-> <<[fc |-> fc, i |-> 0]>>]
  /\ UNCHANGED <<fcs, rsets, nfc, nrs, held, rsheld, last, threads>>

\* The statements before the switch: fc->frozen = true, or the precondition
\* then fc->part_of_trace_class = true.  A failed precondition ends the whole
\* call.
WalkBody ==
  /\ walk.stack # <<>>
  /\ LET top == walk.stack[Len(walk.stack)] IN
     /\ top.i = 0
     /\ IF walk.op = "freeze"
          THEN /\ fcs' = [fcs EXCEPT ![top.fc].frozen = TRUE]
               /\ walk' = [walk EXCEPT !.stack[Len(walk.stack)].i = 1]
               /\ UNCHANGED last
        ELSE IF fcs[top.fc].part_of_trace_class
          THEN /\ walk' = NoWalk
               /\ last' = Call(walk.op, walk.root, "", "InvalidState", <<>>)
               /\ UNCHANGED fcs
        ELSE /\ fcs' = [fcs EXCEPT ![top.fc].part_of_trace_class = TRUE]
             /\ walk' = [walk EXCEPT !.stack[Len(walk.stack)].i = 1]
             /\ UNCHANGED last
  /\ UNCHANGED <<rsets, nfc, nrs, held, rsheld, threads>>

\* One iteration of the loop, or the array case: the recursive call on the
\* next child; _bt_named_field_class_freeze() sets the flag of the entry first
WalkCall ==
  /\ walk.stack # <<>>
  /\ LET n == Len(walk.stack)
         top == walk.stack[n]
         children == WalkChildren(walk.op, fcs[top.fc]) IN
     /\ top.i >= 1
     /\ top.i <= Len(children)
     /\ fcs' = IF walk.op = "freeze"
                 THEN [fcs EXCEPT ![top.fc].named_fcs[top.i].frozen = TRUE]
               ELSE fcs
     /\ walk' = [walk EXCEPT !.stack =
                   Append([walk.stack EXCEPT ![n] = WalkAdvance(top)],
                          [fc |-> children[top.i], i |-> 0])]
  /\ UNCHANGED <<rsets, nfc, nrs, held, rsheld, last, threads>>

\* The end of the function: the frame is popped; the first frame returns to the
\* owner
WalkReturn ==
  /\ walk.stack # <<>>
  /\ LET n == Len(walk.stack)
         top == walk.stack[n] IN
     /\ top.i > Len(WalkChildren(walk.op, fcs[top.fc]))
     /\ IF n = 1
          THEN /\ walk' = NoWalk
               /\ last' = Call(walk.op, walk.root, "", "OK", <<>>)
        ELSE /\ walk' = [walk EXCEPT !.stack = SubSeq(walk.stack, 1, n - 1)]
             /\ UNCHANGED last
  /\ UNCHANGED <<fcs, rsets, nfc, nrs, held, rsheld, threads>>

\* The running call executes its next statement
WalkStep == WalkBody \/ WalkCall \/ WalkReturn

\* bt_field_class_get_ref()
GetRef(fc) ==
  /\ Alive(fcs, fc)
  /\ held[fc] < MaxHeld
  /\ CanRefFc(fc)
  /\ fcs' = GetRefFc(fcs, fc)
  /\ held' = [held EXCEPT ![fc] = @ + 1]
  /\ last' = Call("get_ref", fc, "", "OK", <<>>)
  /\ UNCHANGED <<rsets, nfc, nrs, rsheld>>

\* bt_field_class_put_ref(), by a client that holds a reference
PutRef(fc) ==
  /\ held[fc] > 0
  /\ LET H == PutRefs([F |-> fcs, R |-> rsets], <<FcRef(fc)>>) IN
     /\ fcs' = H.F
     /\ rsets' = H.R
  /\ held' = [held EXCEPT ![fc] = @ - 1]
  /\ last' = Call("put_ref", fc, "", "OK", <<>>)
  /\ UNCHANGED <<nfc, nrs, rsheld>>

\* bt_integer_range_set_{unsigned,signed}_create()
RangeSetCreate(is_signed) ==
  /\ nrs < MaxRs
  /\ rsets' = [rsets EXCEPT ![nrs + 1] =
                 [alive |-> TRUE, refs |-> 1, frozen |-> FALSE,
                  is_signed |-> is_signed, ranges |-> <<>>]]
  /\ nrs' = nrs + 1
  /\ rsheld' = [rsheld EXCEPT ![nrs + 1] = 1]
  /\ last' = Call("range_set_create", nrs + 1, "", "OK", <<>>)
  /\ UNCHANGED <<fcs, nfc, held>>

\* bt_integer_range_set_{unsigned,signed}_add_range()
RangeSetAddRange(range_set, lower, upper) ==
  /\ rsets[range_set].alive
  /\ Len(rsets[range_set].ranges) < MaxRanges
  /\ LET status == IF rsets[range_set].frozen \/ lower > upper
                     THEN "InvalidArgument" ELSE "OK"
     IN /\ rsets' = IF status = "OK"
                      THEN [rsets EXCEPT ![range_set].ranges =
                              Append(@, Range(lower, upper))]
                      ELSE rsets
        /\ last' = Call("range_set_add_range", range_set, "", status, <<>>)
  /\ UNCHANGED <<fcs, nfc, nrs, held, rsheld>>

\* bt_integer_range_set_put_ref(), by a client that holds a reference
RangeSetPutRef(range_set) ==
  /\ rsheld[range_set] > 0
  /\ LET H == PutRefs([F |-> fcs, R |-> rsets], <<RsRef(range_set)>>) IN
     /\ fcs' = H.F
     /\ rsets' = H.R
  /\ rsheld' = [rsheld EXCEPT ![range_set] = @ - 1]
  /\ last' = Call("range_set_put_ref", range_set, "", "OK", <<>>)
  /\ UNCHANGED <<nfc, nrs, held>>

\* ------------------------------------------------------------ specifications
Next ==
  /\ \/ \E t \in IntTypes : CreateInteger(t)
     \/ \E t \in EnumTypes : CreateEnumeration(t)
     \/ CreateReal
     \/ CreateString
     \/ CreateStructure
     \/ \E s \in FcIds \cup {NULL} : CreateVariant(s)
     \/ \E e \in FcIds : CreateStaticArray(e)
     \/ \E e \in FcIds, l \in FcIds \cup {NULL} : CreateDynamicArray(e, l)
     \/ \E fc \in FcIds, size \in Sizes : SetFieldValueRange(fc, size)
     \/ \E fc \in FcIds, base \in Bases : SetPreferredDisplayBase(fc, base)
     \/ \E fc \in FcIds, b \in BOOLEAN : SetIsSinglePrecision(fc, b)
     \/ \E fc \in FcIds, l \in Labels, rs \in RsIds : AddMapping(fc, l, rs)
     \/ \E fc \in FcIds, v \in Vals : GetMappingLabelsForValue(fc, v)
     \/ \E fc, m \in FcIds, n \in Names : StructureAppendMember(fc, n, m)
     \/ \E fc, o \in FcIds, n \in Names : VariantWithoutSelectorAppendOption(fc, n, o)
     \/ \E t \in SelVariantTypes, fc, o \in FcIds, n \in Names, rs \in RsIds :
          VariantWithSelectorAppendOption(t, fc, n, o, rs)
     \/ \E fc \in FcIds, n \in Names : BorrowByName(fc, n)
     \/ \E fc \in FcIds : Freeze(fc)
     \/ \E fc \in FcIds : MakePartOfTraceClass(fc)
     \/ \E fc \in FcIds : GetRef(fc)
     \/ \E fc \in FcIds : PutRef(fc)
     \/ \E s \in BOOLEAN : RangeSetCreate(s)
     \/ \E rs \in RsIds, lo, hi \in Vals : RangeSetAddRange(rs, lo, hi)
     \/ \E rs \in RsIds : RangeSetPutRef(rs)
  /\ UNCHANGED <<threads, walk>>

Spec == Init /\ [][Next]_vars

\* ------------------------------------------------------------ scenarios
\* Each scenario is a client that uses part of the API, within its own bounds;
\* every step of a scenario is a step of Next.
MaxAttrFc == 2      \* SpecAttr: field classes created
MaxAttrRefs == 2    \* SpecAttr: reference count of one field class
AttrSizes == {32, 65}

RefsWithin(F, n) == \A i \in FcIds : F[i].refs <= n

\* Integers, reals and structures: the setters, append and freeze
NextAttr ==
  /\ \/ nfc < MaxAttrFc /\ CreateInteger("UNSIGNED_INTEGER")
     \/ nfc < MaxAttrFc /\ CreateReal
     \/ nfc < MaxAttrFc /\ CreateStructure
     \/ \E fc \in FcIds, size \in AttrSizes : SetFieldValueRange(fc, size)
     \/ \E fc \in FcIds, base \in Bases : SetPreferredDisplayBase(fc, base)
     \/ \E fc \in FcIds, b \in BOOLEAN : SetIsSinglePrecision(fc, b)
     \/ \E fc, m \in FcIds : StructureAppendMember(fc, "a", m)
     \/ \E fc \in FcIds : Freeze(fc)
  /\ RefsWithin(fcs', MaxAttrRefs)
  /\ UNCHANGED <<threads, walk>>

SpecAttr == Init /\ [][NextAttr]_vars

MaxEnumFc == 1       \* SpecEnum: field classes created
MaxEnumRs == 2       \* SpecEnum: range sets created
EnumRanges == {<<0, 1>>, <<1, 2>>}
EnumValues == {0, 1, 2, 3}

\* One enumeration and its range sets: mappings, lookups and freeze
NextEnum ==
  /\ \/ \E t \in EnumTypes : nfc < MaxEnumFc /\ CreateEnumeration(t)
     \/ \E s \in BOOLEAN : nrs < MaxEnumRs /\ RangeSetCreate(s)
     \/ \E rs \in RsIds, r \in EnumRanges : RangeSetAddRange(rs, r[1], r[2])
     \/ \E fc \in FcIds, l \in Labels, rs \in RsIds : AddMapping(fc, l, rs)
     \/ \E fc \in FcIds, v \in EnumValues : GetMappingLabelsForValue(fc, v)
     \/ \E fc \in FcIds : Freeze(fc)
  /\ UNCHANGED <<threads, walk>>

SpecEnum == Init /\ [][NextEnum]_vars

MaxTraceFc == 3      \* SpecTrace: field classes created
MaxTraceRefs == 2    \* SpecTrace: references on one field class

\* Integers, structures and static arrays that are frozen and made part of a
\* trace class
NextTrace ==
  /\ \/ nfc < MaxTraceFc /\ CreateInteger("UNSIGNED_INTEGER")
     \/ nfc < MaxTraceFc /\ CreateStructure
     \/ \E e \in FcIds : nfc < MaxTraceFc /\ CreateStaticArray(e)
     \/ \E fc, m \in FcIds, n \in Names : StructureAppendMember(fc, n, m)
     \/ \E fc \in FcIds : Freeze(fc)
     \/ \E fc \in FcIds : MakePartOfTraceClass(fc)
  /\ RefsWithin(fcs', MaxTraceRefs)
  /\ UNCHANGED <<threads, walk>>

SpecTrace == Init /\ [][NextTrace]_vars

MaxVarFc == 2        \* SpecVariant: field classes created
MaxVarRs == 2        \* SpecVariant: range sets created
VarRanges == {<<0, 1>>, <<1, 2>>, <<2, 2>>}
VarValues == {0, 1, 2}

\* An integer selector, a variant with that selector and the range sets of
\* its options
NextVariant ==
  /\ \/ \E t \in {"UNSIGNED_INTEGER", "SIGNED_INTEGER"} :
          nfc < MaxVarFc /\ CreateInteger(t)
     \/ \E sel \in FcIds : nfc < MaxVarFc /\ CreateVariant(sel)
     \/ \E is_signed \in BOOLEAN : nrs < MaxVarRs /\ RangeSetCreate(is_signed)
     \/ \E rs \in RsIds, r \in VarRanges : RangeSetAddRange(rs, r[1], r[2])
     \/ \E t \in SelVariantTypes, fc, o \in FcIds, n \in Names, rs \in RsIds :
          VariantWithSelectorAppendOption(t, fc, n, o, rs)
  /\ UNCHANGED <<threads, walk>>

SpecVariant == Init /\ [][NextVariant]_vars

MaxContFc == 3       \* SpecContainer: field classes created
MaxContRefs == 2     \* SpecContainer: references on one field class

\* Structures and variants without a selector: append, lookup by name, freeze
NextContainer ==
  /\ \/ nfc < MaxContFc /\ CreateInteger("UNSIGNED_INTEGER")
     \/ nfc < MaxContFc /\ CreateStructure
     \/ nfc < MaxContFc /\ CreateVariant(NULL)
     \/ \E fc, m \in FcIds, n \in Names : StructureAppendMember(fc, n, m)
     \/ \E fc, o \in FcIds, n \in Names :
          VariantWithoutSelectorAppendOption(fc, n, o)
     \/ \E fc \in FcIds, n \in Names : BorrowByName(fc, n)
     \/ \E fc \in FcIds : Freeze(fc)
  /\ RefsWithin(fcs', MaxContRefs)
  /\ UNCHANGED <<threads, walk>>

SpecContainer == Init /\ [][NextContainer]_vars

MaxOwnFc == 3        \* SpecOwn: field classes created

\* Structures and their members: the references taken and given back
NextOwn ==
  /\ \/ nfc < MaxOwnFc /\ CreateInteger("UNSIGNED_INTEGER")
     \/ nfc < MaxOwnFc /\ CreateStructure
     \/ \E fc, m \in FcIds, n \in Names : StructureAppendMember(fc, n, m)
     \/ \E fc \in FcIds : PutRef(fc)
  /\ UNCHANGED <<threads, walk>>

SpecOwn == Init /\ [][NextOwn]_vars

MaxFreezeFc == 3     \* SpecFreeze: field classes created

\* Integers, structures and static arrays, composed and frozen
NextFreeze ==
  /\ \/ nfc < MaxFreezeFc /\ CreateInteger("UNSIGNED_INTEGER")
     \/ nfc < MaxFreezeFc /\ CreateStructure
     \/ \E e \in FcIds : nfc < MaxFreezeFc /\ CreateStaticArray(e)
     \/ \E fc, m \in FcIds : StructureAppendMember(fc, "a", m)
     \/ \E fc \in FcIds : Freeze(fc)
  /\ UNCHANGED <<threads, walk>>

SpecFreeze == Init /\ [][NextFreeze]_vars

MaxCompFc == 3       \* SpecCompose: field classes created
MaxCompRs == 1       \* SpecCompose: range sets created
MaxCompRefs == 2     \* SpecCompose: references on one field class

\* Every way of composing: members, options, array elements, selectors and
\* dynamic array lengths, and the release of parents
NextCompose ==
  /\ \/ nfc < MaxCompFc /\ CreateInteger("UNSIGNED_INTEGER")
     \/ nfc < MaxCompFc /\ CreateStructure
     \/ \E sel \in FcIds \cup {NULL} : nfc < MaxCompFc /\ CreateVariant(sel)
     \/ \E e \in FcIds : nfc < MaxCompFc /\ CreateStaticArray(e)
     \/ \E e \in FcIds, len \in FcIds \cup {NULL} :
          nfc < MaxCompFc /\ CreateDynamicArray(e, len)
     \/ \E fc, m \in FcIds : StructureAppendMember(fc, "a", m)
     \/ \E fc, o \in FcIds : VariantWithoutSelectorAppendOption(fc, "a", o)
     \/ nrs < MaxCompRs /\ RangeSetCreate(FALSE)
     \/ \E rs \in RsIds : RangeSetAddRange(rs, 0, 1)
     \/ \E fc, o \in FcIds, rs \in RsIds :
          VariantWithSelectorAppendOption("VARIANT_WITH_UNSIGNED_SELECTOR",
                                          fc, "a", o, rs)
     \/ \E fc \in FcIds : PutRef(fc)
  /\ RefsWithin(fcs', MaxCompRefs)
  /\ UNCHANGED <<threads, walk>>

SpecCompose == Init /\ [][NextCompose]_vars

MaxShareFc == 3      \* SpecShare: field classes created

\* Field classes shared by several parents and made part of a trace class
NextShare ==
  /\ \/ nfc < MaxShareFc /\ CreateInteger("UNSIGNED_INTEGER")
     \/ nfc < MaxShareFc /\ CreateStructure
     \/ \E e \in FcIds : nfc < MaxShareFc /\ CreateStaticArray(e)
     \/ \E fc, m \in FcIds : StructureAppendMember(fc, "a", m)
     \/ \E fc \in FcIds : MakePartOfTraceClass(fc)
  /\ UNCHANGED <<threads, walk>>

SpecShare == Init /\ [][NextShare]_vars

MaxWidthFc == 2      \* SpecWidth: field classes created

\* Integers and enumerations: the field value range
NextWidth ==
  /\ \/ \E t \in IntTypes : nfc < MaxWidthFc /\ CreateInteger(t)
     \/ \E t \in EnumTypes : nfc < MaxWidthFc /\ CreateEnumeration(t)
     \/ \E fc \in FcIds, size \in Sizes : SetFieldValueRange(fc, size)
     \/ \E fc \in FcIds : Freeze(fc)
  /\ UNCHANGED <<threads, walk>>

SpecWidth == Init /\ [][NextWidth]_vars

MaxArrayFc == 3      \* SpecArray: field classes created
MaxArrayRefs == 2    \* SpecArray: references on one field class

\* Dynamic arrays and the field classes given as their length
NextArray ==
  /\ \/ \E t \in IntTypes : nfc < MaxArrayFc /\ CreateInteger(t)
     \/ \E t \in EnumTypes : nfc < MaxArrayFc /\ CreateEnumeration(t)
     \/ nfc < MaxArrayFc /\ CreateString
     \/ \E e \in FcIds, len \in FcIds \cup {NULL} :
          nfc < MaxArrayFc /\ CreateDynamicArray(e, len)
  /\ RefsWithin(fcs', MaxArrayRefs)
  /\ UNCHANGED <<threads, walk>>

SpecArray == Init /\ [][NextArray]_vars

MaxKindFc == 2       \* SpecKind: field classes created
MaxKindRs == 2       \* SpecKind: range sets created

\* Variants created with every kind of selector, and options with signed and
\* unsigned range sets
NextKind ==
  /\ \/ \E t \in IntTypes : nfc < MaxKindFc /\ CreateInteger(t)
     \/ \E t \in EnumTypes : nfc < MaxKindFc /\ CreateEnumeration(t)
     \/ nfc < MaxKindFc /\ CreateString
     \/ \E sel \in FcIds \cup {NULL} : nfc < MaxKindFc /\ CreateVariant(sel)
     \/ \E is_signed \in BOOLEAN : nrs < MaxKindRs /\ RangeSetCreate(is_signed)
     \/ \E rs \in RsIds : RangeSetAddRange(rs, 0, 1)
     \/ \E t \in SelVariantTypes, fc, o \in FcIds, rs \in RsIds :
          VariantWithSelectorAppendOption(t, fc, "a", o, rs)
  /\ UNCHANGED <<threads, walk>>

SpecKind == Init /\ [][NextKind]_vars

MaxThrFc == 1        \* SpecThreads: field classes created
MaxThrRs == 2        \* SpecThreads: range sets created
ThrRanges == {<<0, 1>>, <<1, 2>>}
ThrValues == {0, 2}

\* One unsigned enumeration built and frozen by one thread, then looked up by
\* the threads side by side; nothing else runs once a lookup has started
NextThreads ==
  \/ /\ \A t \in ThreadIds : threads[t].pc = "idle"
     /\ \/ nfc < MaxThrFc /\ CreateEnumeration("UNSIGNED_ENUMERATION")
        \/ nrs < MaxThrRs /\ RangeSetCreate(FALSE)
        \/ \E rs \in RsIds, r \in ThrRanges : RangeSetAddRange(rs, r[1], r[2])
        \/ \E fc \in FcIds, l \in Labels, rs \in RsIds : AddMapping(fc, l, rs)
        \/ \E fc \in FcIds : Freeze(fc)
     /\ UNCHANGED <<threads, walk>>
  \/ \E t \in ThreadIds, fc \in FcIds, v \in ThrValues :
       fcs[fc].frozen /\ LabelsEnter(t, fc, v)
  \/ \E t \in ThreadIds : LabelsScan(t)
  \/ \E t \in ThreadIds : LabelsReturn(t)

SpecThreads == Init /\ [][NextThreads]_vars

MaxOrderFc == 3      \* SpecOrder: field classes created
MaxOrderRefs == 2    \* SpecOrder: references on one field class
OrderIndexes == 0..2

\* Structures and variants without a selector: append, count, lookup by index
NextOrder ==
  /\ \/ nfc < MaxOrderFc /\ CreateInteger("UNSIGNED_INTEGER")
     \/ nfc < MaxOrderFc /\ CreateStructure
     \/ nfc < MaxOrderFc /\ CreateVariant(NULL)
     \/ \E fc, m \in FcIds, n \in Names : StructureAppendMember(fc, n, m)
     \/ \E fc, o \in FcIds, n \in Names :
          VariantWithoutSelectorAppendOption(fc, n, o)
     \/ \E fc \in FcIds : GetCount(fc)
     \/ \E fc \in FcIds, i \in OrderIndexes : BorrowAtIndex(fc, i)
  /\ RefsWithin(fcs', MaxOrderRefs)
  /\ UNCHANGED <<threads, walk>>

SpecOrder == Init /\ [][NextOrder]_vars

MaxFlagsFc == 2      \* SpecFlags: field classes created
MaxFlagsRefs == 2    \* SpecFlags: references on one field class

\* Every operation on integers, structures and static arrays, from creation to
\* destruction
NextFlags ==
  /\ \/ nfc < MaxFlagsFc /\ CreateInteger("UNSIGNED_INTEGER")
     \/ nfc < MaxFlagsFc /\ CreateStructure
     \/ \E e \in FcIds : nfc < MaxFlagsFc /\ CreateStaticArray(e)
     \/ \E fc \in FcIds : SetFieldValueRange(fc, 32)
     \/ \E fc \in FcIds : SetPreferredDisplayBase(fc, "HEXADECIMAL")
     \/ \E fc, m \in FcIds : StructureAppendMember(fc, "a", m)
     \/ \E fc \in FcIds : BorrowByName(fc, "a")
     \/ \E fc \in FcIds : Freeze(fc)
     \/ \E fc \in FcIds : MakePartOfTraceClass(fc)
     \/ \E fc \in FcIds : GetRef(fc)
     \/ \E fc \in FcIds : PutRef(fc)
  /\ RefsWithin(fcs', MaxFlagsRefs)
  /\ UNCHANGED <<threads, walk>>

SpecFlags == Init /\ [][NextFlags]_vars

MaxRelFc == 2        \* SpecRelease: field classes created
MaxRelRs == 1        \* SpecRelease: range sets created
MaxRelRefs == 3      \* SpecRelease: references on one field class

\* Every kind of owner, frozen or part of a trace class or neither, and the
\* release of its references
NextRelease ==
  /\ \/ nfc < MaxRelFc /\ CreateInteger("UNSIGNED_INTEGER")
     \/ nfc < MaxRelFc /\ CreateEnumeration("UNSIGNED_ENUMERATION")
     \/ nfc < MaxRelFc /\ CreateStructure
     \/ \E sel \in FcIds : nfc < MaxRelFc /\ CreateVariant(sel)
     \/ \E e \in FcIds, len \in FcIds \cup {NULL} :
          nfc < MaxRelFc /\ CreateDynamicArray(e, len)
     \/ \E fc, m \in FcIds : StructureAppendMember(fc, "a", m)
     \/ nrs < MaxRelRs /\ RangeSetCreate(FALSE)
     \/ \E rs \in RsIds : RangeSetAddRange(rs, 0, 1)
     \/ \E fc \in FcIds, rs \in RsIds : AddMapping(fc, "x", rs)
     \/ \E fc, o \in FcIds, rs \in RsIds :
          VariantWithSelectorAppendOption("VARIANT_WITH_UNSIGNED_SELECTOR",
                                          fc, "a", o, rs)
     \/ \E fc \in FcIds : Freeze(fc)
     \/ \E fc \in FcIds : MakePartOfTraceClass(fc)
     \/ \E fc \in FcIds : GetRef(fc)
     \/ \E fc \in FcIds : PutRef(fc)
     \/ \E rs \in RsIds : RangeSetPutRef(rs)
  /\ RefsWithin(fcs', MaxRelRefs)
  /\ UNCHANGED <<threads, walk>>

SpecRelease == Init /\ [][NextRelease]_vars

MaxFitFc == 1        \* SpecFit: field classes created
MaxFitRs == 2        \* SpecFit: range sets created
FitRanges == {<<0, 1>>, <<1, 2>>}
FitSizes == {1, 2, 64}

\* One enumeration: its mappings and its field value range
NextFit ==
  /\ \/ \E t \in EnumTypes : nfc < MaxFitFc /\ CreateEnumeration(t)
     \/ \E sg \in BOOLEAN : nrs < MaxFitRs /\ RangeSetCreate(sg)
     \/ \E rs \in RsIds, r \in FitRanges : RangeSetAddRange(rs, r[1], r[2])
     \/ \E fc \in FcIds, l \in Labels, rs \in RsIds : AddMapping(fc, l, rs)
     \/ \E fc \in FcIds, size \in FitSizes : SetFieldValueRange(fc, size)
  /\ UNCHANGED <<threads, walk>>

SpecFit == Init /\ [][NextFit]_vars

MaxDeepFc == 3       \* SpecDeep: field classes created
MaxDeepRs == 1       \* SpecDeep: range sets created
MaxDeepRefs == 3     \* SpecDeep: references on one field class

\* Structures and variants with a selector, nested, and freeze
NextDeep ==
  /\ \/ nfc < MaxDeepFc /\ CreateInteger("UNSIGNED_INTEGER")
     \/ nfc < MaxDeepFc /\ CreateStructure
     \/ \E sel \in FcIds : nfc < MaxDeepFc /\ CreateVariant(sel)
     \/ \E fc, m \in FcIds : StructureAppendMember(fc, "a", m)
     \/ nrs < MaxDeepRs /\ RangeSetCreate(FALSE)
     \/ \E rs \in RsIds : RangeSetAddRange(rs, 0, 1)
     \/ \E fc, o \in FcIds, rs \in RsIds :
          VariantWithSelectorAppendOption("VARIANT_WITH_UNSIGNED_SELECTOR",
                                          fc, "a", o, rs)
     \/ \E fc \in FcIds : Freeze(fc)
  /\ RefsWithin(fcs', MaxDeepRefs)
  /\ UNCHANGED <<threads, walk>>

SpecDeep == Init /\ [][NextDeep]_vars

MaxDiamondFc == 3    \* SpecDiamond: field classes created
MaxDiamondRefs == 3  \* SpecDiamond: references on one field class

\* Structures that have the same field class as two members, or as a member
\* and as the member of a member, made part of a trace class
NextDiamond ==
  /\ \/ nfc < MaxDiamondFc /\ CreateInteger("UNSIGNED_INTEGER")
     \/ nfc < MaxDiamondFc /\ CreateStructure
     \/ \E fc, m \in FcIds, n \in Names : StructureAppendMember(fc, n, m)
     \/ \E fc \in FcIds : MakePartOfTraceClass(fc)
  /\ RefsWithin(fcs', MaxDiamondRefs)
  /\ UNCHANGED <<threads, walk>>

SpecDiamond == Init /\ [][NextDiamond]_vars

MaxScratchFc == 1    \* SpecScratch: field classes created
MaxScratchRs == 2    \* SpecScratch: range sets created
ScratchRanges == {<<0, 1>>, <<1, 2>>}
ScratchValues == {0, 1, 2, 3}

\* One enumeration, its mappings, and label lookups one after the other
NextScratch ==
  /\ \/ nfc < MaxScratchFc /\ CreateEnumeration("UNSIGNED_ENUMERATION")
     \/ nrs < MaxScratchRs /\ RangeSetCreate(FALSE)
     \/ \E rs \in RsIds, r \in ScratchRanges :
          RangeSetAddRange(rs, r[1], r[2])
     \/ \E fc \in FcIds, l \in Labels, rs \in RsIds : AddMapping(fc, l, rs)
     \/ \E fc \in FcIds, v \in ScratchValues : GetMappingLabelsForValue(fc, v)
  /\ UNCHANGED <<threads, walk>>

SpecScratch == Init /\ [][NextScratch]_vars

MaxRoundFc == 3      \* SpecRound: field classes created

\* Variants with a selector and dynamic arrays, created with arguments that
\* pass the checks, and released
NextRound ==
  /\ \/ \E t \in IntTypes : nfc < MaxRoundFc /\ CreateInteger(t)
     \/ \E sel \in FcIds :
          /\ nfc < MaxRoundFc
          /\ fcs[sel].type \in IntTypes
          /\ CreateVariant(sel)
     \/ \E e \in FcIds, len \in FcIds \cup {NULL} :
          /\ nfc < MaxRoundFc
          /\ IF len = NULL THEN TRUE ELSE FcIsUnsignedInt(fcs[len])
          /\ CreateDynamicArray(e, len)
     \/ \E fc \in FcIds : PutRef(fc)
  /\ UNCHANGED <<threads, walk>>

SpecRound == Init /\ [][NextRound]_vars

MaxNewFc == 2        \* SpecNew: field classes created

\* Every creation function, beside field classes that were changed since
\* their creation
NextNew ==
  /\ \/ \E t \in IntTypes : nfc < MaxNewFc /\ CreateInteger(t)
     \/ \E t \in EnumTypes : nfc < MaxNewFc /\ CreateEnumeration(t)
     \/ nfc < MaxNewFc /\ CreateReal
     \/ nfc < MaxNewFc /\ CreateString
     \/ nfc < MaxNewFc /\ CreateStructure
     \/ \E sel \in FcIds \cup {NULL} : nfc < MaxNewFc /\ CreateVariant(sel)
     \/ \E e \in FcIds : nfc < MaxNewFc /\ CreateStaticArray(e)
     \/ \E e \in FcIds, len \in FcIds \cup {NULL} :
          nfc < MaxNewFc /\ CreateDynamicArray(e, len)
     \/ \E fc \in FcIds : SetFieldValueRange(fc, 32)
     \/ \E fc \in FcIds : SetPreferredDisplayBase(fc, "HEXADECIMAL")
     \/ \E fc \in FcIds : Freeze(fc)
     \/ \E fc \in FcIds : MakePartOfTraceClass(fc)
  /\ UNCHANGED <<threads, walk>>

SpecNew == Init /\ [][NextNew]_vars

MaxCycleFc == 2      \* SpecCycle: field classes created
MaxCycleRefs == 3    \* SpecCycle: references on one field class

\* Every way of making an edge between field classes, with freeze, attach and
\* release
NextCycle ==
  /\ \/ nfc < MaxCycleFc /\ CreateInteger("UNSIGNED_INTEGER")
     \/ nfc < MaxCycleFc /\ CreateStructure
     \/ \E sel \in FcIds \cup {NULL} : nfc < MaxCycleFc /\ CreateVariant(sel)
     \/ \E e \in FcIds : nfc < MaxCycleFc /\ CreateStaticArray(e)
     \/ \E e \in FcIds, len \in FcIds \cup {NULL} :
          nfc < MaxCycleFc /\ CreateDynamicArray(e, len)
     \/ \E fc, m \in FcIds : StructureAppendMember(fc, "a", m)
     \/ \E fc, o \in FcIds : VariantWithoutSelectorAppendOption(fc, "a", o)
     \/ \E fc \in FcIds : Freeze(fc)
     \/ \E fc \in FcIds : MakePartOfTraceClass(fc)
     \/ \E fc \in FcIds : PutRef(fc)
  /\ RefsWithin(fcs', MaxCycleRefs)
  /\ UNCHANGED <<threads, walk>>

SpecCycle == Init /\ [][NextCycle]_vars

MaxWalkFc == 3       \* SpecWalk: field classes created
MaxWalkRefs == 2     \* SpecWalk: references on one field class

\* Structures and arrays built by one owner, who calls freeze and
\* make_part_of_trace_class and does nothing else until the call has returned
NextWalk ==
  /\ \/ /\ walk.stack = <<>>
        /\ \/ nfc < MaxWalkFc /\ CreateStructure
           \/ \E e \in FcIds : nfc < MaxWalkFc /\ CreateStaticArray(e)
           \/ \E fc, m \in FcIds, n \in Names : StructureAppendMember(fc, n, m)
        /\ UNCHANGED walk
     \/ \E fc \in FcIds : WalkEnter("freeze", fc)
     \/ \E fc \in FcIds : WalkEnter("make_part_of_trace_class", fc)
     \/ WalkBody
     \/ WalkCall
     \/ WalkReturn
  /\ RefsWithin(fcs', MaxWalkRefs)
  /\ UNCHANGED threads

SpecWalk == Init /\ [][NextWalk]_vars

\* A call that has started keeps running: the thread that made it executes the
\* next statement
SpecWalkFair == SpecWalk /\ WF_vars(WalkStep)

MaxFrameFc == 3      \* SpecFrame: field classes created
MaxFrameRefs == 3    \* SpecFrame: references on one field class

\* Variants with a selector and dynamic arrays with a length, alone or under a
\* structure, made part of a trace class
NextFrame ==
  /\ \/ nfc < MaxFrameFc /\ CreateInteger("UNSIGNED_INTEGER")
     \/ nfc < MaxFrameFc /\ CreateStructure
     \/ \E sel \in FcIds : nfc < MaxFrameFc /\ CreateVariant(sel)
     \/ \E e \in FcIds, len \in FcIds \cup {NULL} :
          nfc < MaxFrameFc /\ CreateDynamicArray(e, len)
     \/ \E fc, m \in FcIds, n \in Names : StructureAppendMember(fc, n, m)
     \/ \E fc \in FcIds : MakePartOfTraceClass(fc)
  /\ RefsWithin(fcs', MaxFrameRefs)
  /\ UNCHANGED <<threads, walk>>

SpecFrame == Init /\ [][NextFrame]_vars

\* ------------------------------------------------------------ claims
SetterOps == {"set_field_value_range", "set_preferred_display_base",
              "set_is_single_precision"}
AppendOps == {"append_member", "append_option"}

\* C1 (freeze monotonicity): once a field class is frozen, every setter call and
\* every append on it fails, and its bit width, display base, precision flag,
\* entry list and name index keep the values they had, for as long as it lives.
C1_FreezeMonotonicity ==
  [][\A fc \in FcIds :
       (Alive(fcs, fc) /\ fcs[fc].frozen /\ Alive(fcs', fc)) =>
         /\ fcs'[fc].frozen
         /\ fcs'[fc].range = fcs[fc].range
         /\ fcs'[fc].base = fcs[fc].base
         /\ fcs'[fc].is_single_precision = fcs[fc].is_single_precision
         /\ fcs'[fc].named_fcs = fcs[fc].named_fcs
         /\ fcs'[fc].name_to_index = fcs[fc].name_to_index
         /\ (last'.fc = fc /\ last'.op \in SetterOps \cup AppendOps)
              => last'.status # "OK"]_vars

\* A frozen structure that has a member has just refused an append, and a frozen
\* integer whose width was set before the freeze is there too.
C1_Witness ==
  /\ last.op = "append_member"
  /\ last.status = "InvalidState"
  /\ fcs[last.fc].frozen
  /\ Len(fcs[last.fc].named_fcs) = 1
  /\ \E i \in FcIds : fcs[i].type = "UNSIGNED_INTEGER" /\ fcs[i].frozen /\ fcs[i].range = 32

\* C2: once an enumeration field class is frozen, add_mapping on it fails and
\* its mapping table never changes again.
C2_FrozenEnumerationMappings ==
  [][\A fc \in FcIds :
       (Alive(fcs, fc) /\ fcs[fc].type \in EnumTypes /\ fcs[fc].frozen
        /\ Alive(fcs', fc)) =>
         /\ fcs'[fc].mappings = fcs[fc].mappings
         /\ (last'.op = "add_mapping" /\ last'.fc = fc) => last'.status # "OK"]_vars

\* The labels of the mappings of f that have a range containing value, in
\* mapping order
MatchingLabels(f, R, value) ==
  LET Matches(m) == \E j \in 1..Len(R[m.range_set].ranges) :
                      /\ R[m.range_set].ranges[j].lower <= value
                      /\ value <= R[m.range_set].ranges[j].upper
      sel == SelectSeq(f.mappings, Matches)
  IN [i \in 1..Len(sel) |-> sel[i].label]

\* C7 (enumeration multi-label lookup): get_mapping_labels_for_value(v) returns,
\* with an OK status, exactly the labels of the mappings that have a range
\* containing v, each once, in mapping insertion order (the empty sequence when
\* none matches).
C7_LabelsForValue ==
  last.op = "get_mapping_labels_for_value" =>
    /\ last.status = "OK"
    /\ last.result = MatchingLabels(fcs[last.fc], rsets, last.key)
    /\ fcs[last.fc].label_buf = last.result

\* Two mappings match the value, one of them through two of its ranges
C7_Witness ==
  /\ last.op = "get_mapping_labels_for_value"
  /\ Len(last.result) = 2
  /\ \E i \in 1..Len(fcs[last.fc].mappings) :
       LET ranges == rsets[fcs[last.fc].mappings[i].range_set].ranges IN
       Cardinality({j \in 1..Len(ranges) :
                      ranges[j].lower <= last.key /\ last.key <= ranges[j].upper}) = 2

\* C3 (single attachment): a call of make_part_of_trace_class on a field class
\* that is already part of a trace class fails with InvalidState; a call that
\* succeeds found the flag clear and sets it, and the flag stays set while the
\* field class lives: the call succeeds at most once per field class.
C3_SingleAttachment ==
  [][\A fc \in FcIds :
       /\ (last'.op = "make_part_of_trace_class" /\ last'.fc = fc
           /\ fcs[fc].part_of_trace_class) => last'.status = "InvalidState"
       /\ (last'.op = "make_part_of_trace_class" /\ last'.fc = fc
           /\ last'.status = "OK") =>
            ~fcs[fc].part_of_trace_class /\ fcs'[fc].part_of_trace_class
       /\ (Alive(fcs, fc) /\ fcs[fc].part_of_trace_class /\ Alive(fcs', fc))
            => fcs'[fc].part_of_trace_class]_vars

\* An integer (it has no child that could fail the call) has refused the call
C3_Witness ==
  /\ last.op = "make_part_of_trace_class"
  /\ last.status = "InvalidState"
  /\ fcs[last.fc].type = "UNSIGNED_INTEGER"
  /\ fcs[last.fc].part_of_trace_class

\* C4: every field class that is part of a trace class is frozen.
C4_PartOfTraceClassIsFrozen ==
  \A fc \in FcIds :
    (Alive(fcs, fc) /\ fcs[fc].part_of_trace_class) => fcs[fc].frozen

\* v lies in one of the ranges of the sequence
InRanges(ranges, v) ==
  \E k \in 1..Len(ranges) : ranges[k].lower <= v /\ v <= ranges[k].upper

\* Some value lies in two different ranges of the range set itself
SelfIntersects(ranges) ==
  \E k1, k2 \in 1..Len(ranges) :
    /\ k1 < k2
    /\ \E v \in VarValues : InRanges(<<ranges[k1]>>, v) /\ InRanges(<<ranges[k2]>>, v)

C5_Disjoint ==
  \A fc \in FcIds :
    (Alive(fcs, fc) /\ fcs[fc].type \in SelVariantTypes) =>
      \A i, j \in 1..Len(fcs[fc].named_fcs) :
        i # j => \A v \in VarValues :
          ~(/\ InRanges(rsets[fcs[fc].named_fcs[i].range_set].ranges, v)
            /\ InRanges(rsets[fcs[fc].named_fcs[j].range_set].ranges, v))

C5_Append ==
  \A t \in SelVariantTypes, fc, o \in FcIds, n \in Names, rs \in RsIds :
    (VariantWithSelectorAppendOption(t, fc, n, o, rs) /\ fcs[fc].type = t) =>
      LET shared == \E i \in 1..Len(fcs[fc].named_fcs), v \in VarValues :
                      /\ InRanges(rsets[fcs[fc].named_fcs[i].range_set].ranges, v)
                      /\ InRanges(rsets[rs].ranges, v)
          new == rsets[rs].ranges
      IN /\ shared => /\ last'.status = "OverlappingRanges"
                      /\ fcs'[fc].named_fcs = fcs[fc].named_fcs
         /\ (/\ ~shared /\ new # <<>> /\ ~SelfIntersects(new)
             /\ fc # o /\ ~fcs[fc].frozen
             /\ n \notin DOMAIN fcs[fc].name_to_index) =>
              /\ last'.status = "OK"
              /\ fcs'[fc].named_fcs = Append(fcs[fc].named_fcs, NamedFc(n, o, rs))

\* C5 (selector partition): the ranges of the options of a variant with a
\* selector are pairwise disjoint; an append_option whose range set shares a
\* value (a boundary is enough) with the ranges of an existing option fails
\* with OverlappingRanges and appends nothing, and one whose ranges intersect
\* neither an existing option's nor each other succeeds when the variant is not
\* frozen and the name is new.
C5_SelectorPartition == [](C5_Disjoint) /\ [][C5_Append]_vars

\* The variant has one option, for [0,1], and an append was refused for its
\* overlap while the range set [1,2], which no option took, is at hand
C5_Witness ==
  /\ last.op = "append_option"
  /\ last.status = "OverlappingRanges"
  /\ Len(fcs[last.fc].named_fcs) = 1
  /\ rsets[fcs[last.fc].named_fcs[1].range_set].ranges = <<Range(0, 1)>>
  /\ \E rs \in RsIds : rsets[rs].refs = 1 /\ rsets[rs].ranges = <<Range(1, 2)>>

\* Entry names are pairwise distinct and the name index maps each entry's name
\* to its position, with no other key
NameIndexOk(f) ==
  /\ \A i, j \in 1..Len(f.named_fcs) :
       i # j => f.named_fcs[i].name # f.named_fcs[j].name
  /\ DOMAIN f.name_to_index = {f.named_fcs[i].name : i \in 1..Len(f.named_fcs)}
  /\ \A i \in 1..Len(f.named_fcs) : f.name_to_index[f.named_fcs[i].name] = i - 1

C6_NameIndex ==
  \A fc \in FcIds :
    (Alive(fcs, fc) /\ fcs[fc].type \in ContainerTypes) => NameIndexOk(fcs[fc])

\* Entries keep their position: the entry list only grows at its end
C6_InsertionOrder ==
  \A fc \in FcIds :
    (Alive(fcs, fc) /\ Alive(fcs', fc)) =>
      /\ Len(fcs'[fc].named_fcs) >= Len(fcs[fc].named_fcs)
      /\ SubSeq(fcs'[fc].named_fcs, 1, Len(fcs[fc].named_fcs)) = fcs[fc].named_fcs

\* get_by_name: the entry of that name, or nothing when no entry has the name
C6_GetByName ==
  last.op = "borrow_by_name" =>
    LET f == fcs[last.fc]
        at == {i \in 1..Len(f.named_fcs) : f.named_fcs[i].name = last.key}
    IN IF at = {} THEN last.result = <<>>
       ELSE \E i \in at : last.result = <<f.named_fcs[i]>>

\* An append of a name that is present
AppendOfPresentName ==
  /\ last'.op \in AppendOps
  /\ last'.key \in DOMAIN fcs[last'.fc].name_to_index

EntriesOf(f, x) ==
  Cardinality({i \in 1..Len(f.named_fcs) : f.named_fcs[i].fc = x})

RECURSIVE EntriesIn(_, _, _)
\* The number of entries of the field classes D whose field class is x
EntriesIn(F, D, x) ==
  IF D = {} THEN 0
  ELSE LET d == CHOOSE d \in D : TRUE IN
       EntriesOf(F[d], x) + EntriesIn(F, D \ {d}, x)

\* The field classes that the step destroys
Destroyed == {d \in FcIds : Alive(fcs, d) /\ ~Alive(fcs', d)}

\* C8 (round-trip ownership): a successful append to a structure or variant
\* adds exactly one to the reference count of the appended field class and
\* leaves every other count as it is; a put_ref takes one from the count of its
\* field class, and when it destroys containers every field class loses exactly
\* one reference per entry of a destroyed container that refers to it, so that
\* what the appends added is given back.
C8_RoundTripOwnership ==
  [][/\ (last'.op \in AppendOps /\ last'.status = "OK") =>
          LET e == fcs'[last'.fc].named_fcs[Len(fcs'[last'.fc].named_fcs)] IN
          /\ Len(fcs'[last'.fc].named_fcs) = Len(fcs[last'.fc].named_fcs) + 1
          /\ \A x \in FcIds :
               fcs'[x].refs = fcs[x].refs + (IF x = e.fc THEN 1 ELSE 0)
     /\ last'.op = "put_ref" =>
          \A x \in FcIds :
            Alive(fcs, x) =>
              (IF Alive(fcs', x) THEN fcs'[x].refs ELSE 0) =
                fcs[x].refs - (IF x = last'.fc THEN 1 ELSE 0)
                            - EntriesIn(fcs, Destroyed, x)]_vars

\* The last reference on a container was put and the container is gone; a
\* field class that was a member (it is frozen) lives on with the one reference
\* that its creator holds
C8_Witness ==
  /\ last.op = "put_ref"
  /\ ~Alive(fcs, last.fc)
  /\ \E x \in FcIds :
       /\ Alive(fcs, x) /\ fcs[x].frozen /\ fcs[x].refs = 1 /\ held[x] = 1
       /\ \A d \in FcIds : Alive(fcs, d) => EntriesOf(fcs[d], x) = 0

\* C9 (idempotent freeze): freeze on a field class that is already frozen
\* reports no error and changes nothing: no frozen flag, attribute, entry,
\* reference count or part_of_trace_class flag of any field class, and no
\* range set.
C9_IdempotentFreeze ==
  [][(last'.op = "freeze" /\ fcs[last'.fc].frozen) =>
       /\ last'.status = "OK"
       /\ fcs' = fcs
       /\ rsets' = rsets
       /\ held' = held]_vars

\* freeze was called on a structure that has a member and is itself a member
\* of a live structure, so that it was frozen before the call
C9_Witness ==
  /\ last.op = "freeze"
  /\ fcs[last.fc].type = "STRUCTURE"
  /\ Len(fcs[last.fc].named_fcs) > 0
  /\ \E d \in FcIds : Alive(fcs, d) /\ EntriesOf(fcs[d], last.fc) > 0

\* The field classes that f refers to: as the field class of an entry (member
\* or option), as array element, as selector, as dynamic array length
ChildrenOf(f) ==
  ({f.named_fcs[i].fc : i \in 1..Len(f.named_fcs)}
   \cup {f.element_fc, f.selector_fc, f.length_fc}) \ {NULL}

\* C10: every field class that a live parent refers to (as a structure member,
\* a variant option, an array element, a variant selector or a dynamic array
\* length) is live and frozen, whatever the parent's own flags.
C10_ChildrenAreFrozen ==
  \A p \in FcIds :
    Alive(fcs, p) =>
      \A c \in ChildrenOf(fcs[p]) : Alive(fcs, c) /\ fcs[c].frozen

\* A variant that is neither frozen nor part of a trace class has a selector
\* and an option
C10_Witness ==
  \E p \in FcIds :
    /\ Alive(fcs, p)
    /\ ~fcs[p].frozen /\ ~fcs[p].part_of_trace_class
    /\ fcs[p].selector_fc # NULL
    /\ Len(fcs[p].named_fcs) = 1

\* The field classes that f refers to as member, option or array element
TraversedChildrenOf(f) ==
  ({f.named_fcs[i].fc : i \in 1..Len(f.named_fcs)} \cup {f.element_fc}) \ {NULL}

RECURSIVE ReachableFrom(_, _)
\* The field classes reachable from those of S through members, options and
\* array elements, S included
ReachableFrom(F, S) ==
  LET T == S \cup UNION {TraversedChildrenOf(F[x]) : x \in S} IN
  IF T = S THEN S ELSE ReachableFrom(F, T)

\* C11: after a successful make_part_of_trace_class(root), root and every field
\* class reachable from it through members, options and array elements, at any
\* depth, is part of a trace class.
C11_WholeTreeIsPart ==
  (last.op = "make_part_of_trace_class" /\ last.status = "OK") =>
    \A x \in ReachableFrom(fcs, {last.fc}) : fcs[x].part_of_trace_class

\* The call succeeded on a structure whose member is an array: the element is
\* two levels below the root
C11_Witness ==
  /\ last.op = "make_part_of_trace_class"
  /\ last.status = "OK"
  /\ fcs[last.fc].type = "STRUCTURE"
  /\ \E i \in 1..Len(fcs[last.fc].named_fcs) :
       fcs[fcs[last.fc].named_fcs[i].fc].type = "STATIC_ARRAY"

\* C12 (no sharing): a call of make_part_of_trace_class on a root that reaches
\* a field class which is already part of a trace class fails, and a call that
\* succeeds found no field class it reaches part of a trace class: no field
\* class is attached through two roots.
C12_NoSharing ==
  [][\A r \in FcIds :
       (last'.op = "make_part_of_trace_class" /\ last'.fc = r) =>
         /\ (\E x \in ReachableFrom(fcs, {r}) : fcs[x].part_of_trace_class)
              => last'.status = "InvalidState"
         /\ last'.status = "OK" =>
              \A x \in ReachableFrom(fcs, {r}) :
                ~fcs[x].part_of_trace_class /\ fcs'[x].part_of_trace_class]_vars

\* Two structures have the same member; the first is part of a trace class
\* with its member, and the call on the second, which was not, has failed
C12_Witness ==
  /\ last.op = "make_part_of_trace_class"
  /\ last.status = "InvalidState"
  /\ fcs[last.fc].type = "STRUCTURE"
  /\ \E r1 \in FcIds \ {last.fc} :
       /\ fcs[r1].type = "STRUCTURE"
       /\ fcs[r1].part_of_trace_class
       /\ Len(fcs[r1].named_fcs) = 1
       /\ Len(fcs[last.fc].named_fcs) = 1
       /\ fcs[r1].named_fcs[1].fc = fcs[last.fc].named_fcs[1].fc
       /\ fcs[r1].named_fcs[1].fc \notin {r1, last.fc}

\* C13: the field value range of every integer and enumeration field class
\* lies in 1..64.
C13_WidthInRange ==
  \A fc \in FcIds :
    (Alive(fcs, fc) /\ fcs[fc].type \in IntTypes \cup EnumTypes) =>
      (1 <= fcs[fc].range /\ fcs[fc].range <= 64)

\* C14: the range set of every mapping of an enumeration is frozen, so that no
\* add_range changes the ranges of a stored mapping.
C14_MappingRangeSetsFrozen ==
  \A fc \in FcIds :
    (Alive(fcs, fc) /\ fcs[fc].type \in EnumTypes) =>
      \A i \in 1..Len(fcs[fc].mappings) :
        rsets[fcs[fc].mappings[i].range_set].frozen

\* The range set of every option of a variant with a selector is frozen
C15_OptionRangeSetsFrozen ==
  \A fc \in FcIds :
    (Alive(fcs, fc) /\ fcs[fc].type \in SelVariantTypes) =>
      \A i \in 1..Len(fcs[fc].named_fcs) :
        rsets[fcs[fc].named_fcs[i].range_set].frozen

C15_Step ==
  /\ (/\ last'.op = "append_option" /\ last'.status = "OK"
      /\ fcs[last'.fc].type \in SelVariantTypes) =>
       LET e == fcs'[last'.fc].named_fcs[Len(fcs'[last'.fc].named_fcs)] IN
       /\ rsets'[e.range_set].frozen
       /\ rsets'[e.range_set].refs = rsets[e.range_set].refs + 1
       /\ rsets'[e.range_set].ranges = rsets[e.range_set].ranges
       /\ \A rs \in RsIds \ {e.range_set} : rsets'[rs] = rsets[rs]
  /\ \A fc \in FcIds :
       (Alive(fcs, fc) /\ fcs[fc].type \in SelVariantTypes /\ Alive(fcs', fc)) =>
         \A i \in 1..Len(fcs[fc].named_fcs) :
           /\ fcs'[fc].named_fcs[i] = fcs[fc].named_fcs[i]
           /\ rsets'[fcs[fc].named_fcs[i].range_set].ranges =
                rsets[fcs[fc].named_fcs[i].range_set].ranges

\* C15: a successful append_option on a variant with a selector freezes the
\* range set and adds exactly one to its reference count; the range set of
\* every stored option is frozen and the ranges of a stored option never
\* change.
C15_OptionRangeSetFrozen == [](C15_OptionRangeSetsFrozen) /\ [][C15_Step]_vars

\* add_range was refused on the range set of a stored option
C15_Witness ==
  /\ last.op = "range_set_add_range"
  /\ last.status = "InvalidArgument"
  /\ \E fc \in FcIds :
       /\ Alive(fcs, fc) /\ fcs[fc].type \in SelVariantTypes
       /\ \E i \in 1..Len(fcs[fc].named_fcs) :
            fcs[fc].named_fcs[i].range_set = last.fc

\* The labels of the mappings of every enumeration are pairwise distinct
C16_LabelsDistinct ==
  \A fc \in FcIds :
    (Alive(fcs, fc) /\ fcs[fc].type \in EnumTypes) =>
      \A i, j \in 1..Len(fcs[fc].mappings) :
        i # j => fcs[fc].mappings[i].label # fcs[fc].mappings[j].label

C16_Step ==
  last'.op = "add_mapping" =>
    LET old == fcs[last'.fc].mappings
        new == fcs'[last'.fc].mappings
    IN IF \E i \in 1..Len(old) : old[i].label = last'.key
         THEN /\ last'.status = "DuplicateLabel"
              /\ new = old
              /\ rsets' = rsets
         ELSE /\ last'.status = "OK"
              /\ Len(new) = Len(old) + 1
              /\ SubSeq(new, 1, Len(old)) = old
              /\ new[Len(new)].label = last'.key

\* C16: the labels of the mappings of one enumeration are pairwise distinct;
\* add_mapping with a label that is present fails with DuplicateLabel and
\* leaves the mapping table and every range set (its reference count
\* included) as they are; a successful add_mapping appends exactly one mapping,
\* at the end.
C16_UniqueLabels == [](C16_LabelsDistinct) /\ [][C16_Step]_vars

\* An enumeration with two mappings has refused a mapping for the label of the
\* second
C16_Witness ==
  /\ last.op = "add_mapping"
  /\ last.status = "DuplicateLabel"
  /\ Len(fcs[last.fc].mappings) = 2
  /\ fcs[last.fc].mappings[2].label = last.key

\* C17: add_mapping on an enumeration that is not frozen, with a label that no
\* mapping has, succeeds and stores the range set, whatever its ranges are and
\* whatever the ranges of the mappings that are there.
C17_NoOverlapCheck ==
  [][\A rs \in RsIds, l \in Labels, fc \in FcIds :
       (/\ AddMapping(fc, l, rs)
        /\ ~fcs[fc].frozen
        /\ \A i \in 1..Len(fcs[fc].mappings) : fcs[fc].mappings[i].label # l) =>
         /\ last'.status = "OK"
         /\ fcs'[fc].mappings =
              Append(fcs[fc].mappings, [label |-> l, range_set |-> rs])]_vars

\* An enumeration that is not frozen has taken a second mapping whose ranges
\* overlap each other and those of the first mapping
C17_Witness ==
  /\ last.op = "add_mapping"
  /\ last.status = "OK"
  /\ ~fcs[last.fc].frozen
  /\ Len(fcs[last.fc].mappings) = 2
  /\ LET r1 == rsets[fcs[last.fc].mappings[1].range_set].ranges
         r2 == rsets[fcs[last.fc].mappings[2].range_set].ranges
     IN /\ r1 = <<Range(0, 1)>>
        /\ r2 = <<Range(0, 1), Range(1, 2)>>

\* Every option of every variant with a selector has a range set with a range
C18_OptionRangeSetsNotEmpty ==
  \A fc \in FcIds :
    (Alive(fcs, fc) /\ fcs[fc].type \in SelVariantTypes) =>
      \A i \in 1..Len(fcs[fc].named_fcs) :
        /\ fcs[fc].named_fcs[i].range_set # NULL
        /\ Len(rsets[fcs[fc].named_fcs[i].range_set].ranges) > 0

C18_Step ==
  \A t \in SelVariantTypes, fc, o \in FcIds, n \in Names, rs \in RsIds :
    (VariantWithSelectorAppendOption(t, fc, n, o, rs) /\ rsets[rs].ranges = <<>>) =>
      /\ last'.status # "OK"
      /\ fcs' = fcs
      /\ rsets' = rsets

\* C18: append_option on a variant with a selector is rejected, and changes
\* nothing, when the range set has no range; every option of every variant
\* with a selector has a range set that is not empty.
C18_NoEmptyRangeSet == [](C18_OptionRangeSetsNotEmpty) /\ [][C18_Step]_vars

\* An append_option was refused for its empty range set
C18_Witness ==
  /\ last.op = "append_option"
  /\ last.status = "EmptyRangeSet"
  /\ fcs[last.fc].type \in SelVariantTypes
  /\ \E rs \in RsIds : rsets[rs].alive /\ rsets[rs].ranges = <<>>

UnsignedFamily == {"UNSIGNED_INTEGER", "UNSIGNED_ENUMERATION"}

\* The length field class of every dynamic array is absent or unsigned
C19_LengthIsUnsigned ==
  \A fc \in FcIds :
    (Alive(fcs, fc) /\ fcs[fc].type = "DYNAMIC_ARRAY" /\ fcs[fc].length_fc # NULL)
      => fcs[fcs[fc].length_fc].type \in UnsignedFamily

C19_Step ==
  \A e \in FcIds, len \in FcIds :
    (CreateDynamicArray(e, len) /\ fcs[len].type \notin UnsignedFamily) =>
      /\ last'.status = "InvalidArgument"
      /\ nfc' = nfc
      /\ \A fc \in FcIds : fcs'[fc].type = fcs[fc].type

\* C19: the creation of a dynamic array with a length field class that is
\* neither an unsigned integer nor an unsigned enumeration fails with
\* InvalidArgument and yields no array; the length field class of every
\* dynamic array is absent or of one of these two kinds.
C19_DynamicArrayLength == [](C19_LengthIsUnsigned) /\ [][C19_Step]_vars

\* A creation was refused when every field class was a signed integer: the
\* length given was one
C19_Witness ==
  /\ last.op = "dynamic_array_create"
  /\ last.status = "InvalidArgument"
  /\ nfc > 0
  /\ \A fc \in 1..nfc : fcs[fc].type = "SIGNED_INTEGER"

SignedFamily == {"SIGNED_INTEGER", "SIGNED_ENUMERATION"}

\* The range set of every option is signed on a variant with a signed selector
\* and unsigned on a variant with an unsigned selector, and the selector is of
\* the family that the kind of the variant names
C20_KindMatches ==
  \A fc \in FcIds :
    Alive(fcs, fc) =>
      /\ (fcs[fc].type = "VARIANT_WITH_UNSIGNED_SELECTOR") =>
           /\ fcs[fcs[fc].selector_fc].type \in UnsignedFamily
           /\ \A i \in 1..Len(fcs[fc].named_fcs) :
                ~rsets[fcs[fc].named_fcs[i].range_set].is_signed
      /\ (fcs[fc].type = "VARIANT_WITH_SIGNED_SELECTOR") =>
           /\ fcs[fcs[fc].selector_fc].type \in SignedFamily
           /\ \A i \in 1..Len(fcs[fc].named_fcs) :
                rsets[fcs[fc].named_fcs[i].range_set].is_signed
      /\ (fcs[fc].type = "VARIANT_WITHOUT_SELECTOR") => fcs[fc].selector_fc = NULL

C20_Step ==
  /\ \A sel \in FcIds \cup {NULL} :
       CreateVariant(sel) =>
         LET kind == IF sel = NULL THEN "VARIANT_WITHOUT_SELECTOR"
                     ELSE IF fcs[sel].type \in UnsignedFamily
                       THEN "VARIANT_WITH_UNSIGNED_SELECTOR"
                     ELSE IF fcs[sel].type \in SignedFamily
                       THEN "VARIANT_WITH_SIGNED_SELECTOR"
                     ELSE "NONE"
         IN IF kind = "NONE"
              THEN last'.status = "InvalidArgument" /\ nfc' = nfc /\ fcs' = fcs
              ELSE /\ last'.status = "OK"
                   /\ nfc' = nfc + 1
                   /\ fcs'[nfc'].type = kind
                   /\ fcs'[nfc'].selector_fc = sel
  /\ \A fc \in FcIds : Alive(fcs, fc) /\ Alive(fcs', fc) => fcs'[fc].type = fcs[fc].type
  /\ \A t \in SelVariantTypes, fc, o \in FcIds, n \in Names, rs \in RsIds :
       (VariantWithSelectorAppendOption(t, fc, n, o, rs) /\ last'.status = "OK") =>
         /\ fcs[fc].type = t
         /\ rsets[rs].is_signed = (fcs[fc].type = "VARIANT_WITH_SIGNED_SELECTOR")

\* C20: bt_field_class_variant_create yields a variant without selector for no
\* selector, with an unsigned selector for an unsigned integer or enumeration,
\* with a signed selector for a signed integer or enumeration, and fails for a
\* selector of any other kind; the kind never changes; an option with signed
\* (unsigned) ranges is accepted only by the variant with a signed (unsigned)
\* selector.
C20_VariantKind == [](C20_KindMatches) /\ [][C20_Step]_vars

\* A variant whose selector is an unsigned enumeration has refused the append
\* meant for variants with a signed selector
C20_Witness ==
  /\ last.op = "append_option"
  /\ last.status = "InvalidArgument"
  /\ fcs[last.fc].type = "VARIANT_WITH_UNSIGNED_SELECTOR"
  /\ fcs[fcs[last.fc].selector_fc].type = "UNSIGNED_ENUMERATION"

\* C21 (concurrent lookups): when threads look up labels on the same frozen
\* enumeration side by side, every lookup that has returned has returned exactly
\* the labels matching its own value, in mapping order.
C21_ConcurrentLookups ==
  \A t \in ThreadIds :
    threads[t].pc = "done" =>
      threads[t].result =
        MatchingLabels(fcs[threads[t].fc], rsets, threads[t].value)

\* The step is an append to fc of an entry (n, m) that succeeds
SuccessfulAppend(fc, n, m) ==
  /\ \/ StructureAppendMember(fc, n, m)
     \/ VariantWithoutSelectorAppendOption(fc, n, m)
  /\ last'.status = "OK"

\* A container gets an entry only by a successful append, which puts the
\* entry (name, child) behind the entries it has and changes none of them
C22_Step ==
  \A fc \in FcIds :
    (Alive(fcs, fc) /\ fcs[fc].type \in ContainerTypes /\ Alive(fcs', fc)) =>
      IF \E m \in FcIds, n \in Names : SuccessfulAppend(fc, n, m)
        THEN \E m \in FcIds, n \in Names :
               /\ SuccessfulAppend(fc, n, m)
               /\ fcs'[fc].named_fcs =
                    Append(fcs[fc].named_fcs, NamedFc(n, m, NULL))
        ELSE fcs'[fc].named_fcs = fcs[fc].named_fcs

\* The count is the length of the entry list and the lookup by a valid index i
\* gives the entry at position i of it
C22_Queries ==
  /\ last.op = "get_count" => last.result = <<Len(fcs[last.fc].named_fcs)>>
  /\ (last.op = "borrow_at_index" /\ last.key < Len(fcs[last.fc].named_fcs)) =>
       /\ last.status = "OK"
       /\ last.result = <<fcs[last.fc].named_fcs[last.key + 1]>>

\* C22 (insertion order): the entry list of a container is the sequence of its
\* successful appends: each successful append adds its (name, child) at the end
\* and leaves the index, name and child of the entries before it as they are,
\* nothing else changes the list, the count is its length and get_by_index(i),
\* 0 <= i < len, is its entry i.
C22_InsertionOrder == [](C22_Queries) /\ [][C22_Step]_vars

\* The entry at index 1 of a container of two entries has been looked up, and
\* it is the entry appended second (name "a" after name "b")
C22_Witness ==
  /\ last.op = "borrow_at_index"
  /\ last.key = 1
  /\ Len(fcs[last.fc].named_fcs) = 2
  /\ fcs[last.fc].named_fcs[1].name = "b"
  /\ last.result = <<fcs[last.fc].named_fcs[2]>>
  /\ last.result[1].name = "a"

\* C23 (the flags only rise): no step takes a field class that stays alive from
\* frozen to not frozen or from part of a trace class to not part of one; the
\* flags are lost only with the object.
C23_FlagsNeverReset ==
  [][\A fc \in FcIds :
       (Alive(fcs, fc) /\ Alive(fcs', fc)) =>
         /\ fcs[fc].frozen => fcs'[fc].frozen
         /\ fcs[fc].part_of_trace_class => fcs'[fc].part_of_trace_class]_vars

\* A structure that is frozen and part of a trace class, and whose member is
\* too, has refused to be made part of a trace class again
C23_Witness ==
  /\ last.op = "make_part_of_trace_class"
  /\ last.status = "InvalidState"
  /\ fcs[last.fc].type = "STRUCTURE"
  /\ fcs[last.fc].frozen
  /\ fcs[last.fc].part_of_trace_class
  /\ Len(fcs[last.fc].named_fcs) = 1
  /\ fcs[fcs[last.fc].named_fcs[1].fc].frozen
  /\ fcs[fcs[last.fc].named_fcs[1].fc].part_of_trace_class

\* The number of references that field class f holds on field class x: one per
\* entry, one as array element, one as selector, one as dynamic array length
FcRefsHeldBy(f, x) ==
  EntriesOf(f, x)
  + (IF f.element_fc = x THEN 1 ELSE 0)
  + (IF f.selector_fc = x THEN 1 ELSE 0)
  + (IF f.length_fc = x THEN 1 ELSE 0)

\* The number of references that field class f holds on range set r: one per
\* option and one per mapping
RsRefsHeldBy(f, r) ==
  Cardinality({i \in 1..Len(f.named_fcs) : f.named_fcs[i].range_set = r})
  + Cardinality({i \in 1..Len(f.mappings) : f.mappings[i].range_set = r})

RECURSIVE FcRefsHeldIn(_, _, _)
FcRefsHeldIn(F, D, x) ==
  IF D = {} THEN 0
  ELSE LET d == CHOOSE d \in D : TRUE IN
       FcRefsHeldBy(F[d], x) + FcRefsHeldIn(F, D \ {d}, x)

RECURSIVE RsRefsHeldIn(_, _, _)
RsRefsHeldIn(F, D, r) ==
  IF D = {} THEN 0
  ELSE LET d == CHOOSE d \in D : TRUE IN
       RsRefsHeldBy(F[d], r) + RsRefsHeldIn(F, D \ {d}, r)

\* C24 (release of a frozen or attached field class): get_ref and put_ref
\* succeed whatever the flags are; get_ref adds one reference and changes
\* nothing else; put_ref of the last reference destroys the field class
\* whatever its flags are, and every field class and every range set loses
\* exactly one reference per member, option, array element, selector, length,
\* option range set and mapping range set of a destroyed field class that
\* refers to it (and is destroyed in turn when none is left); the flags of
\* the survivors stay.
C24_Release ==
  [][/\ last'.op = "get_ref" =>
          /\ last'.status = "OK"
          /\ fcs' = [fcs EXCEPT ![last'.fc].refs = @ + 1]
          /\ rsets' = rsets
     /\ last'.op = "put_ref" =>
          /\ last'.status = "OK"
          /\ fcs[last'.fc].refs = 1 => ~Alive(fcs', last'.fc)
          /\ \A x \in FcIds :
               Alive(fcs, x) =>
                 /\ (IF Alive(fcs', x) THEN fcs'[x].refs ELSE 0) =
                      fcs[x].refs - (IF x = last'.fc THEN 1 ELSE 0)
                                  - FcRefsHeldIn(fcs, Destroyed, x)
                 /\ Alive(fcs', x) =>
                      fcs' [x] = [fcs[x] EXCEPT !.refs = fcs'[x].refs]
          /\ \A r \in RsIds :
               rsets[r].alive =>
                 /\ (IF rsets'[r].alive THEN rsets'[r].refs ELSE 0) =
                      rsets[r].refs - RsRefsHeldIn(fcs, Destroyed, r)
                 /\ rsets'[r].alive =>
                      rsets'[r] = [rsets[r] EXCEPT !.refs = rsets'[r].refs]]_vars

\* The last reference on a field class was put and it is gone; a field class
\* that it owned lives on, frozen and part of a trace class, with the one
\* reference its creator holds, and so does a frozen range set of an option
C24_Witness ==
  /\ last.op = "put_ref"
  /\ ~Alive(fcs, last.fc)
  /\ \E x \in FcIds :
       /\ Alive(fcs, x) /\ fcs[x].frozen /\ fcs[x].part_of_trace_class
       /\ fcs[x].refs = 1 /\ held[x] = 1
  /\ \E r \in RsIds :
       rsets[r].alive /\ rsets[r].frozen /\ rsets[r].refs = 1 /\ rsheld[r] = 1

\* A successful set_field_value_range writes the bit width and nothing else, a
\* successful set_preferred_display_base the display base and nothing else
C25_SettersWriteOneField ==
  /\ \A fc \in FcIds, size \in Sizes :
       (SetFieldValueRange(fc, size) /\ last'.status = "OK") =>
         /\ fcs' = [fcs EXCEPT ![fc].range = size]
         /\ rsets' = rsets
  /\ \A fc \in FcIds, base \in Bases :
       (SetPreferredDisplayBase(fc, base) /\ last'.status = "OK") =>
         /\ fcs' = [fcs EXCEPT ![fc].base = base]
         /\ rsets' = rsets

\* C25 as stated: set_field_value_range with more than 64 bits fails with
\* InvalidArgument and leaves the bit width and the display base as they are; a
\* successful setter changes only its own attribute.
C25_WidthSetter_AsStated ==
  [][/\ \A fc \in FcIds, size \in Sizes :
          (SetFieldValueRange(fc, size) /\ size > 64) =>
            /\ last'.status = "InvalidArgument"
            /\ fcs'[fc].range = fcs[fc].range
            /\ fcs'[fc].base = fcs[fc].base
     /\ C25_SettersWriteOneField]_vars

\* C25, amended: set_field_value_range with more than 64 bits fails and leaves
\* the bit width and the display base as they are, with InvalidArgument on a
\* field class that is not frozen and with InvalidState on a frozen one; a
\* successful setter changes only its own attribute.
C25_WidthSetter ==
  [][/\ \A fc \in FcIds, size \in Sizes :
          (SetFieldValueRange(fc, size) /\ size > 64) =>
            /\ last'.status = IF fcs[fc].frozen THEN "InvalidState"
                              ELSE "InvalidArgument"
            /\ fcs'[fc].range = fcs[fc].range
            /\ fcs'[fc].base = fcs[fc].base
     /\ C25_SettersWriteOneField]_vars

\* A width above 64 was refused on an integer that is not frozen and whose
\* width and display base had been set: both are as they were set
C25_Witness ==
  /\ last.op = "set_field_value_range"
  /\ last.status = "InvalidArgument"
  /\ ~fcs[last.fc].frozen
  /\ fcs[last.fc].range = 32
  /\ fcs[last.fc].base = "HEXADECIMAL"

\* The values of the range lie in the field value range of size bits of an
\* enumeration of that type (every value of the model lies in 31 bits or more)
RangeFits(type, range, size) ==
  IF size >= 31 THEN TRUE
  ELSE IF type = "UNSIGNED_ENUMERATION" THEN range.upper <= 2^size - 1
  ELSE /\ size >= 1
       /\ range.lower >= 0 - 2^(size - 1)
       /\ range.upper <= 2^(size - 1) - 1

\* Every range of every mapping of f lies in a field value range of size bits
MappingsFit(f, R, size) ==
  \A i \in 1..Len(f.mappings) :
    \A j \in 1..Len(R[f.mappings[i].range_set].ranges) :
      RangeFits(f.type, R[f.mappings[i].range_set].ranges[j], size)

\* C26: set_field_value_range on an enumeration is refused, and changes
\* nothing, when a range of one of its mappings has a value outside the new
\* field value range.
C26_WidthCoversMappings ==
  [][\A fc \in FcIds, size \in FitSizes :
       (/\ SetFieldValueRange(fc, size)
        /\ fcs[fc].type \in EnumTypes
        /\ ~MappingsFit(fcs[fc], rsets, size)) =>
         /\ last'.status # "OK"
         /\ fcs'[fc].range = fcs[fc].range]_vars

RECURSIVE DescendantsOf(_, _)
\* The field classes reachable from those of S through members, options, array
\* elements, selectors and lengths, S included
DescendantsOf(F, S) ==
  LET T == S \cup UNION {ChildrenOf(F[x]) : x \in S} IN
  IF T = S THEN S ELSE DescendantsOf(F, T)

\* C27 (freeze reaches everything): when freeze on a structure or a variant has
\* returned, the field class and every field class reachable from it are
\* frozen, and so are every entry of each of them and the range set of every
\* option among these entries.
C27_FreezeIsDeep ==
  (last.op = "freeze" /\ fcs[last.fc].type \in ContainerTypes) =>
    /\ last.status = "OK"
    /\ \A x \in DescendantsOf(fcs, {last.fc}) :
         /\ fcs[x].frozen
         /\ \A i \in 1..Len(fcs[x].named_fcs) :
              /\ fcs[x].named_fcs[i].frozen
              /\ fcs[x].named_fcs[i].range_set # NULL =>
                   rsets[fcs[x].named_fcs[i].range_set].frozen

\* freeze was called on a structure that was not frozen; its member is a
\* variant that has an option with a range set
C27_Witness ==
  /\ last.op = "freeze"
  /\ fcs[last.fc].type = "STRUCTURE"
  /\ \A d \in FcIds : Alive(fcs, d) => last.fc \notin ChildrenOf(fcs[d])
  /\ Len(fcs[last.fc].named_fcs) = 1
  /\ LET v == fcs[fcs[last.fc].named_fcs[1].fc] IN
     /\ v.type = "VARIANT_WITH_UNSIGNED_SELECTOR"
     /\ Len(v.named_fcs) = 1
     /\ v.named_fcs[1].range_set # NULL

\* C28 (attaching a tree that has a shared child): a call of
\* make_part_of_trace_class on a root succeeds whenever neither the root nor a
\* field class reachable from it is part of a trace class, also when a field
\* class is reachable from the root along two paths, and every reachable field
\* class is then part of a trace class.
C28_SharedChildAttach ==
  [][\A r \in FcIds :
       (/\ MakePartOfTraceClass(r)
        /\ \A x \in ReachableFrom(fcs, {r}) : ~fcs[x].part_of_trace_class) =>
         /\ last'.status = "OK"
         /\ \A x \in ReachableFrom(fcs, {r}) : fcs'[x].part_of_trace_class]_vars

\* The pairwise definition: among the ranges of the options of f and the
\* ranges of the range set rs, two different ones, [a,b] and [c,d], have
\* max(a,c) <= min(b,d).  A range is named by its option (0: rs) and position.
PairwiseOverlap(f, R, rs) ==
  LET Max(a, b) == IF a >= b THEN a ELSE b
      Min(a, b) == IF a <= b THEN a ELSE b
      SetOf(k) == IF k = 0 THEN rs ELSE f.named_fcs[k].range_set
      At(p) == R[SetOf(p[1])].ranges[p[2]]
      All == {p \in (0..Len(f.named_fcs)) \X (1..MaxRanges) :
                p[2] <= Len(R[SetOf(p[1])].ranges)}
  IN \E p, q \in All :
       /\ p # q
       /\ Max(At(p).lower, At(q).lower) <= Min(At(p).upper, At(q).upper)

\* C29 (the overlap test is the pairwise one): an append_option that passes the
\* checks before the overlap test (the variant's type, a range set that is not
\* empty) fails with OverlappingRanges exactly when two different ranges among
\* the existing options' and the new ones intersect, two new ones included.
C29_OverlapIsPairwise ==
  [][\A t \in SelVariantTypes, fc, o \in FcIds, n \in Names, rs \in RsIds :
       (/\ VariantWithSelectorAppendOption(t, fc, n, o, rs)
        /\ fcs[fc].type = t
        /\ rsets[rs].ranges # <<>>) =>
         (last'.status = "OverlappingRanges" <=> PairwiseOverlap(fcs[fc], rsets, rs))]_vars

\* The first option of a variant was refused for two ranges of its own range
\* set, [0,1] and [1,2], that meet at 1
C29_Witness ==
  /\ last.op = "append_option"
  /\ last.status = "OverlappingRanges"
  /\ fcs[last.fc].named_fcs = <<>>
  /\ \E rs \in RsIds :
       /\ rsets[rs].is_signed = (fcs[last.fc].type = "VARIANT_WITH_SIGNED_SELECTOR")
       /\ rsets[rs].ranges = <<Range(0, 1), Range(1, 2)>>
  /\ \A rs \in RsIds :
       (/\ rsets[rs].alive
        /\ rsets[rs].is_signed = (fcs[last.fc].type = "VARIANT_WITH_SIGNED_SELECTOR"))
         => bt_integer_range_set_has_overlaps(rsets[rs].ranges)

\* The step is a label lookup on fc for value
LookupStep(fc, value) ==
  /\ GetMappingLabelsForValue(fc, value)
  /\ last'.op = "get_mapping_labels_for_value"

\* C30 (no residue in the scratch buffer): the result of a label lookup is the
\* same whatever the scratch buffer held before the call: it is the result of
\* the lookup on the same enumeration with an empty buffer, it has no label of
\* the call before that does not match the value now, and a lookup that
\* follows a lookup of the same value, with the mappings unchanged in between,
\* returns what that one returned.
C30_NoResidue ==
  [][\A fc \in FcIds, value \in ScratchValues :
       LookupStep(fc, value) =>
         /\ \A buf \in {<<>>, <<"x">>, <<"y">>, <<"x", "y">>, <<"y", "x">>} :
              last'.result =
                get_mapping_labels_for_value(
                  [fcs[fc] EXCEPT !.label_buf = buf], rsets, value)
         /\ Len(last'.result) <= Len(fcs[fc].mappings)
         /\ \A k \in 1..Len(last'.result) :
              \E i \in 1..Len(fcs[fc].mappings) :
                /\ fcs[fc].mappings[i].label = last'.result[k]
                /\ InRanges(rsets[fcs[fc].mappings[i].range_set].ranges, value)
         /\ (/\ last.op = "get_mapping_labels_for_value"
             /\ last.fc = fc /\ last.key = value) =>
              last'.result = last.result]_vars

\* A lookup of 2 has returned the one label that matches, "y", on an
\* enumeration with the mappings "x" for [0,1] and "y" for [1,2], where a lookup
\* of 1 leaves both labels in the buffer
C30_Witness ==
  /\ last.op = "get_mapping_labels_for_value"
  /\ last.key = 2
  /\ last.result = <<"y">>
  /\ fcs[last.fc].label_buf = <<"y">>
  /\ Len(fcs[last.fc].mappings) = 2
  /\ fcs[last.fc].mappings[1].label = "x"
  /\ rsets[fcs[last.fc].mappings[1].range_set].ranges = <<Range(0, 1)>>
  /\ rsets[fcs[last.fc].mappings[2].range_set].ranges = <<Range(1, 2)>>

\* C31 (references of selectors, elements and lengths): the reference count of
\* a live field class is the number of references its clients hold plus one
\* per live variant that has it as selector, one per live array that has it as
\* element and one per live dynamic array that has it as length, so that a
\* creation adds exactly these and the destruction gives exactly these back;
\* and the selector, element and length of a live field class are frozen.
C31_SelectorElementLength ==
  \A x \in FcIds :
    Alive(fcs, x) =>
      /\ fcs[x].refs = held[x] + FcRefsHeldIn(fcs, {d \in FcIds : Alive(fcs, d)}, x)
      /\ \A c \in {fcs[x].selector_fc, fcs[x].element_fc, fcs[x].length_fc} \ {NULL} :
           Alive(fcs, c) /\ fcs[c].frozen

\* A field class was destroyed by the release of its last reference, and an
\* integer that was frozen as selector, element or length of a field class
\* destroyed since is back at the one reference that its creator holds
C31_Witness ==
  /\ last.op = "put_ref"
  /\ ~Alive(fcs, last.fc)
  /\ \E x \in FcIds :
       /\ Alive(fcs, x) /\ fcs[x].type \in IntTypes /\ fcs[x].frozen
       /\ fcs[x].refs = 1 /\ held[x] = 1
       /\ \A d \in FcIds : Alive(fcs, d) => x \notin ChildrenOf(fcs[d])

CreateOps == {"integer_create", "enumeration_create", "real_create",
              "string_create", "structure_create", "variant_create",
              "static_array_create", "dynamic_array_create"}

\* C32 (defaults): the field class that a creation function has just returned
\* is not frozen, is not part of a trace class and has one reference; an
\* integer or an enumeration has a field value range of 64 bits and the decimal
\* display base, an enumeration has no mapping, a structure or a variant has no
\* entry and an empty name index.
C32_Defaults ==
  (last.op \in CreateOps /\ last.status = "OK") =>
    LET f == fcs[last.fc] IN
    /\ Alive(fcs, last.fc)
    /\ ~f.frozen
    /\ ~f.part_of_trace_class
    /\ f.refs = 1
    /\ f.type \in IntTypes \cup EnumTypes => f.range = 64 /\ f.base = "DECIMAL"
    /\ f.type \in EnumTypes => f.mappings = <<>>
    /\ f.type \in ContainerTypes =>
         f.named_fcs = <<>> /\ DOMAIN f.name_to_index = {}

\* An enumeration has just been created beside an integer that is frozen, part
\* of a trace class, 32 bits wide and displayed in hexadecimal
C32_Witness ==
  /\ last.op = "enumeration_create"
  /\ last.status = "OK"
  /\ \E x \in FcIds \ {last.fc} :
       /\ fcs[x].type \in IntTypes
       /\ fcs[x].frozen /\ fcs[x].part_of_trace_class
       /\ fcs[x].range = 32 /\ fcs[x].base = "HEXADECIMAL"

\* C33 (a failed append changes nothing): an append to a structure or to a
\* variant without a selector that fails leaves every field class as it was:
\* the entries and the name index of the container, and the frozen flag and
\* the reference count of the field class that was to be appended.
C33_FailedAppendNoEffect ==
  [][\A fc, m \in FcIds, n \in Names :
       (/\ \/ StructureAppendMember(fc, n, m)
           \/ VariantWithoutSelectorAppendOption(fc, n, m)
        /\ last'.status # "OK") =>
         /\ fcs'[fc].named_fcs = fcs[fc].named_fcs
         /\ fcs'[fc].name_to_index = fcs[fc].name_to_index
         /\ fcs'[m].frozen = fcs[m].frozen
         /\ fcs'[m].refs = fcs[m].refs]_vars

\* C34 (a rejected append_option changes nothing): an append_option on a
\* variant with a selector that fails leaves the option list and the name index
\* of the variant as they were, and leaves the frozen flag and the reference
\* count of the option field class and of the range set as they were.
C34_RejectedOptionNoEffect ==
  [][\A t \in SelVariantTypes, fc, o \in FcIds, n \in Names, rs \in RsIds :
       (VariantWithSelectorAppendOption(t, fc, n, o, rs) /\ last'.status # "OK") =>
         /\ fcs'[fc].named_fcs = fcs[fc].named_fcs
         /\ fcs'[fc].name_to_index = fcs[fc].name_to_index
         /\ fcs'[o].frozen = fcs[o].frozen
         /\ fcs'[o].refs = fcs[o].refs
         /\ rsets'[rs].frozen = rsets[rs].frozen
         /\ rsets'[rs].refs = rsets[rs].refs]_vars

\* C35 (a failed attach changes nothing): a call of make_part_of_trace_class
\* that fails leaves the part_of_trace_class flag of every field class as it
\* was.
C35_FailedAttachNoEffect ==
  [][\A r \in FcIds :
       (MakePartOfTraceClass(r) /\ last'.status # "OK") =>
         \A x \in FcIds :
           fcs'[x].part_of_trace_class = fcs[x].part_of_trace_class]_vars

\* C36 (no cycle): over the live field classes, the relation from a parent to
\* its members, options, element, selector and length is acyclic: no field
\* class is reachable from itself.
C36_Acyclic ==
  \A x \in FcIds :
    Alive(fcs, x) => x \notin DescendantsOf(fcs, ChildrenOf(fcs[x]))

\* append_member on a structure has just been rejected, and the structure, which
\* has no member and is the child of no live field class, has more references
\* than the one its creator holds: it was given to itself as a member
C36_Witness ==
  /\ last.op = "append_member"
  /\ last.status = "InvalidState"
  /\ fcs[last.fc].refs >= 2
  /\ fcs[last.fc].named_fcs = <<>>
  /\ \A p \in FcIds : Alive(fcs, p) => last.fc \notin ChildrenOf(fcs[p])

\* The call made one recursive call at a time does what the call made in one
\* step does: when it ends, the field classes and the status are those that
\* _bt_field_class_freeze() or bt_field_class_make_part_of_trace_class() give
\* on the field classes the call started with.
WalkIsTheCall ==
  [][(walk.stack # <<>> /\ walk'.stack = <<>>) =>
       IF walk.op = "freeze"
         THEN /\ fcs' = _bt_field_class_freeze(walk.from, walk.root)
              /\ last'.status = "OK"
       ELSE LET S == bt_field_class_make_part_of_trace_class(
                       [F |-> walk.from, ok |-> TRUE], walk.root) IN
            /\ fcs' = S.F
            /\ last'.status = (IF S.ok THEN "OK" ELSE "InvalidState")]_vars

\* C37 (the traversals end): a call of freeze or of make_part_of_trace_class
\* that has started returns, with success or with failure: whenever a call is
\* running, a state follows in which no call is running.
C37_TraversalsEnd == (walk.stack # <<>>) ~> (walk.stack = <<>>)

\* A call is three recursive calls deep: the root, a child and a child of the
\* child
C37_Witness == Len(walk.stack) = 3

\* The live field classes
LiveFcs == {d \in FcIds : Alive(fcs, d)}

\* C38 (counts cover the parents): while callers put only references they
\* hold, the reference count of a live field class or range set is at least the
\* number of slots of live parents that refer to it (entries, array element,
\* selector, length, mappings, options) plus the references callers hold on
\* it; an object that a live parent or a caller refers to is live; no count is
\* below zero.
C38_CountsCoverParents ==
  /\ \A x \in FcIds :
       /\ fcs[x].refs >= 0
       /\ fcs[x].refs >= FcRefsHeldIn(fcs, LiveFcs, x) + held[x]
       /\ (FcRefsHeldIn(fcs, LiveFcs, x) + held[x] > 0) => Alive(fcs, x)
  /\ \A r \in RsIds :
       /\ rsets[r].refs >= 0
       /\ rsets[r].refs >= RsRefsHeldIn(fcs, LiveFcs, r) + rsheld[r]
       /\ (RsRefsHeldIn(fcs, LiveFcs, r) + rsheld[r] > 0) => rsets[r].alive

\* Callers have put their reference on an enumeration and on the range set of
\* its mapping: the enumeration lives on as the member of a structure and the
\* range set as the mapping's, each with the one reference of its parent
C38_Witness ==
  \E p, x \in FcIds, r \in RsIds :
    /\ Alive(fcs, p) /\ fcs[p].type = "STRUCTURE"
    /\ Alive(fcs, x) /\ fcs[x].type \in EnumTypes
    /\ FcRefsHeldBy(fcs[p], x) = 1
    /\ held[x] = 0 /\ fcs[x].refs = 1
    /\ RsRefsHeldBy(fcs[x], r) = 1
    /\ rsheld[r] = 0 /\ rsets[r].refs = 1

\* C39 (what an attach writes): make_part_of_trace_class(root), whether it
\* succeeds or fails, changes the part_of_trace_class flag of no field class
\* other than root and those reachable from it through members, options and
\* array elements (a selector or a length that is not reachable that way keeps
\* its flag), and changes nothing but that flag: no frozen flag, attribute,
\* entry list or reference count of a field class, and no range set.
C39_AttachFrame ==
  [][\A r \in FcIds :
       MakePartOfTraceClass(r) =>
         /\ \A x \in FcIds :
              /\ fcs'[x] = [fcs[x] EXCEPT !.part_of_trace_class =
                                            fcs'[x].part_of_trace_class]
              /\ x \notin ReachableFrom(fcs, {r}) =>
                   fcs'[x].part_of_trace_class = fcs[x].part_of_trace_class
         /\ rsets' = rsets]_vars

\* The call succeeded on a dynamic array with a length field class, or on a
\* variant with a selector, and the length or selector is not part of a trace
\* class
C39_Witness ==
  /\ last.op = "make_part_of_trace_class"
  /\ last.status = "OK"
  /\ \/ /\ fcs[last.fc].length_fc # NULL
        /\ ~fcs[fcs[last.fc].length_fc].part_of_trace_class
     \/ /\ fcs[last.fc].selector_fc # NULL
        /\ ~fcs[fcs[last.fc].selector_fc].part_of_trace_class

====
